---- MODULE Spec2Model ----
(***************************************************************************)
(* A model of the retry / concurrency / pagination / cache core of         *)
(* planecli:                                                               *)
(*   - run_sdk            (src/planecli/api/async_sdk.py)                  *)
(*   - _fetch_page, _paginate_all (src/planecli/utils/resolve.py)          *)
(*   - paginate_all_async (src/planecli/api/async_sdk.py)                  *)
(*   - _cached_list and the invalidation functions (src/planecli/cache.py) *)
(*                                                                         *)
(* Every coroutine / thread is a task with a program counter; one action   *)
(* is one stretch of code between two suspension points.                   *)
(***************************************************************************)
EXTENDS Integers, Sequences, FiniteSets, TLC

(***************************************************************************)
(* Bounds of the model.                                                    *)
(***************************************************************************)
\* number of concurrent run_sdk calls in Spec
NumTasks == 2
\* number of concurrent run_sdk calls in SpecSem (more than the permit pool)
NumSemTasks == 11
\* largest number of pages the remote listing has in SpecPage
MaxPages == 3

(***************************************************************************)
(* Program constants.                                                      *)
(***************************************************************************)
\* asyncio.Semaphore(10)
SemaphoreSize == 10
\* stop_after_attempt(5) of run_sdk
MaxAttempts == 5
\* stop_after_attempt(5) of _fetch_page
PageMaxAttempts == 5
\* PaginatedQueryParams(per_page=100, ...)
PerPage == 100

(***************************************************************************)
(* Exceptions and outcomes.                                                *)
(*                                                                         *)
(* An exception is its class and its status_code attribute.  HttpError is  *)
(* plane.errors.HttpError; "GatewayError" stands for an exception of       *)
(* another class that also carries a status_code (it is not an HttpError); *)
(* "ValueError" for an exception without one (status_code 0).              *)
(***************************************************************************)
StatusCodes == {429, 502, 503, 504, 500, 401, 404}

HttpError(s) == [cls |-> "HttpError", status_code |-> s]

HttpErrors == {HttpError(s) : s \in StatusCodes}

OtherErrors ==
    {[cls |-> "GatewayError", status_code |-> 503],
     [cls |-> "ValueError", status_code |-> 0]}

Exceptions == HttpErrors \cup OtherErrors

\* what a call gives back to its caller: a value or a raised exception
Returned(v) == [kind |-> "return", value |-> v, cls |-> "-", status_code |-> 0]

Raised(e) ==
    [kind |-> "raise", value |-> <<>>, cls |-> e.cls, status_code |-> e.status_code]

NoOutcome == [kind |-> "none", value |-> <<>>, cls |-> "-", status_code |-> 0]

\* the values a plain wrapped function returns
Values == {<<"a">>, <<"b">>}

\* everything one invocation of a plain wrapped function can do
FnOutcomes == {Returned(v) : v \in Values} \cup {Raised(e) : e \in Exceptions}

(***************************************************************************)
(* async_sdk._is_retryable                                                 *)
(***************************************************************************)
\* the same test without the isinstance check
_is_retryable_any_class(exc) ==
    exc.status_code = 429 \/ exc.status_code \in {502, 503, 504}

_is_retryable(exc) ==
    IF exc.cls = "HttpError"
    THEN exc.status_code = 429 \/ exc.status_code \in {502, 503, 504}
    ELSE FALSE

(***************************************************************************)
(* tenacity, as configured on run_sdk: retry_if_exception(_is_retryable),  *)
(* stop_after_attempt(5), reraise=True.  After an attempt ended with       *)
(* outcome o, the retry loop returns the value, raises the attempt's own   *)
(* exception, or sleeps and makes another attempt.                         *)
(***************************************************************************)
\* stopping one attempt late
stop_after_attempt_late(max_attempt_number, attempt) ==
    attempt > max_attempt_number

stop_after_attempt(max_attempt_number, attempt) ==
    attempt >= max_attempt_number

RetryDecision(o, attempt) ==
    IF o.kind = "return" THEN "return"
    ELSE IF ~_is_retryable(o) THEN "raise"
    ELSE IF stop_after_attempt(MaxAttempts, attempt) THEN "raise"
    ELSE "sleep"

(***************************************************************************)
(* State.                                                                  *)
(***************************************************************************)
VARIABLES
    tasks,           \* the tasks (coroutines) of this run
    fn_outcomes,     \* task -> what an invocation of its wrapped function may do
    pc,              \* task -> position in run_sdk
    attempt_number,  \* task -> retry_state.attempt_number of its run_sdk call
    outcome,         \* task -> retry_state.outcome: how the last attempt ended
    result,          \* task -> what run_sdk gave its caller
    call_count,      \* task -> invocations of the wrapped function so far
    retry_fails,     \* task -> invocations that raised 429/502/503/504
    sem_value,       \* _api_semaphore: free permits
    sem_waiters,     \* _api_semaphore: FIFO queue of suspended acquirers
    kind,            \* task -> "call": run_sdk(fn); "paginate":
                     \* paginate_all_async(list_fn); "sync": _paginate_all(list_fn)
    num_pages,       \* the number of pages the remote listing has
    ppc,             \* task -> position in _paginate_all
    cursor,          \* task -> _paginate_all's cursor (0 is None)
    all_results,     \* task -> _paginate_all's all_results
    page_attempt,    \* task -> attempt_number of the current _fetch_page call
    page_outcome,    \* task -> how the last invocation of list_fn ended
    received,        \* task -> the requests answered with a page, in order,
                     \* since _paginate_all was entered
    watch,           \* the cursor value whose requests are counted
    req_count,       \* task -> invocations of list_fn with cursor = watch
    fetched_ok,      \* task -> list_fn answered a request with cursor = watch
    callers,         \* the coroutines that call _cached_list
    cache_enabled,   \* setup_cache(enable=...): FALSE is the zero-size store
    cache_store,     \* the cashews store: key -> <<>> (no entry) or <<data>>
    _no_cache,       \* cache._no_cache
    cached_call,     \* caller -> its current (or, when idle, last) _cached_list call
    prev_call,       \* caller -> the _cached_list call it made before that one
    command,         \* the create / update / delete command handler that runs
    resolver,        \* the resolve_* call that runs
    best_match,      \* the find_best_match call that runs
    listing          \* the work-item listing (list_) that runs

\* what no action changes
fixed == <<tasks, fn_outcomes, kind, num_pages, watch>>

\* what run_sdk, the pagination, the cache, the commands and the resolvers
\* leave alone
inputs == <<fixed, best_match, listing>>

\* what run_sdk, the pagination and the cache operations leave alone
setup == <<inputs, command, resolver>>

\* the state of _paginate_all
pageVars ==
    <<ppc, cursor, all_results, page_attempt, page_outcome, received,
      req_count, fetched_ok>>

\* the state of the cache and of the _cached_list calls
cacheVars ==
    <<callers, cache_enabled, cache_store, _no_cache, cached_call, prev_call>>

\* the state of run_sdk and of the pagination
sdkVars ==
    <<pc, attempt_number, outcome, result, call_count, retry_fails,
      sem_value, sem_waiters, pageVars>>

runVars == <<setup, sdkVars>>

vars == <<runVars, cacheVars>>

(***************************************************************************)
(* asyncio.Semaphore(10) behind `async with _api_semaphore`: acquire()     *)
(* takes a permit at once when one is free and nobody is queued, otherwise *)
(* the caller joins the FIFO queue and is suspended; release() returns the *)
(* permit, and the head of the queue is woken to take it.                  *)
(***************************************************************************)
\* a semaphore that hands out a permit whether or not one is free
SemaphoreNeverLocked == FALSE

SemaphoreLocked == sem_value = 0 \/ sem_waiters # <<>>

\* entering `async with _api_semaphore`: straight into asyncio.to_thread
\* when a permit is free, suspended in the queue otherwise
EnterSemaphore(t) ==
    IF ~SemaphoreLocked
    THEN /\ sem_value' = sem_value - 1
         /\ sem_waiters' = sem_waiters
         /\ pc' = [pc EXCEPT ![t] = "thread"]
    ELSE /\ sem_value' = sem_value
         /\ sem_waiters' = Append(sem_waiters, t)
         /\ pc' = [pc EXCEPT ![t] = "waiting"]

\* run_sdk is called: the retry loop starts its first attempt
Call(t) ==
    /\ t \in tasks
    /\ kind[t] # "sync"
    /\ pc[t] = "idle"
    /\ attempt_number' = [attempt_number EXCEPT ![t] = 1]
    /\ EnterSemaphore(t)
    /\ UNCHANGED <<cacheVars, setup, outcome, result, call_count, retry_fails, pageVars>>

\* a released permit wakes the first suspended caller, which takes it
WakeUp(t) ==
    /\ t \in tasks
    /\ pc[t] = "waiting"
    /\ sem_waiters # <<>>
    /\ Head(sem_waiters) = t
    /\ sem_value > 0
    /\ sem_value' = sem_value - 1
    /\ sem_waiters' = Tail(sem_waiters)
    /\ pc' = [pc EXCEPT ![t] = "thread"]
    /\ UNCHANGED <<cacheVars, setup, attempt_number, outcome, result, call_count,
                   retry_fails, pageVars>>

\* one retry budget for all the calls: the attempts of every call count
RECURSIVE AttemptsOf(_)
AttemptsOf(ts) ==
    IF ts = {} THEN 0
    ELSE LET t == CHOOSE t \in ts : TRUE IN attempt_number[t] + AttemptsOf(ts \ {t})

AttemptEndsSharedBudget(t, o) ==
    LET d == RetryDecision(o, AttemptsOf(tasks)) IN
    /\ sem_value' = sem_value + 1
    /\ outcome' = [outcome EXCEPT ![t] = o]
    /\ pc' = [pc EXCEPT ![t] = IF d = "sleep" THEN "backoff" ELSE "done"]
    /\ result' = [result EXCEPT ![t] = IF d = "sleep" THEN NoOutcome ELSE o]

\* The wrapped function ended in the worker thread with outcome o: the
\* coroutine leaves `async with` (the permit is released on return and on
\* raise alike) and the retry loop decides.
AttemptEnds(t, o) ==
    LET d == RetryDecision(o, attempt_number[t]) IN
    /\ sem_value' = sem_value + 1
    /\ outcome' = [outcome EXCEPT ![t] = o]
    /\ pc' = [pc EXCEPT ![t] = IF d = "sleep" THEN "backoff" ELSE "done"]
    /\ result' = [result EXCEPT ![t] = IF d = "sleep" THEN NoOutcome ELSE o]

\* asyncio.to_thread(fn, ...): one invocation of a plain wrapped function
Invoke(t) ==
    /\ t \in tasks
    /\ kind[t] = "call"
    /\ pc[t] = "thread"
    /\ \E o \in fn_outcomes[t] :
          /\ AttemptEnds(t, o)
          /\ call_count' = [call_count EXCEPT ![t] = @ + 1]
          /\ retry_fails' =
                [retry_fails EXCEPT
                    ![t] = IF o.kind = "raise" /\ o.cls = "HttpError"
                              /\ o.status_code \in {429, 502, 503, 504}
                           THEN @ + 1 ELSE @]
    /\ UNCHANGED <<cacheVars, setup, attempt_number, sem_waiters, pageVars>>

\* the backoff sleep is over: the retry loop makes the next attempt
Retry(t) ==
    /\ t \in tasks
    /\ pc[t] = "backoff"
    /\ attempt_number' = [attempt_number EXCEPT ![t] = @ + 1]
    /\ EnterSemaphore(t)
    /\ UNCHANGED <<cacheVars, setup, outcome, result, call_count, retry_fails, pageVars>>

(***************************************************************************)
(* The remote listing behind list_fn: page p of num_pages is the answer to *)
(* a request with the cursor that page p-1 gave (None, written 0, for the  *)
(* first page).                                                            *)
(***************************************************************************)
PageResults(p) == [i \in 1 .. (IF p % 2 = 1 THEN 2 ELSE 1) |-> <<p, i>>]

Response(c) ==
    [page |-> c + 1,
     results |-> PageResults(c + 1),
     next_page_results |-> c + 1 < num_pages,
     next_cursor |-> IF c + 1 < num_pages THEN c + 1 ELSE 0]

PaginatedQueryParams(per_page, c) == [per_page |-> per_page, cursor |-> c]

\* everything one invocation of list_fn with the parameters q can do
ListFnOutcomes(q) ==
    {Returned(Response(q.cursor).results)} \cup {Raised(e) : e \in Exceptions}

(***************************************************************************)
(* resolve._is_retryable and the retry loop of resolve._fetch_page         *)
(***************************************************************************)
\* a test that also retries 500
resolve_is_retryable_with_500(exc) ==
    exc.cls = "HttpError" /\ exc.status_code \in {429, 500, 502, 503, 504}

resolve_is_retryable(exc) ==
    exc.cls = "HttpError"
        /\ (exc.status_code = 429 \/ exc.status_code \in {502, 503, 504})

PageRetryDecision(o, attempt) ==
    IF o.kind = "return" THEN "return"
    ELSE IF ~resolve_is_retryable(o) THEN "raise"
    ELSE IF stop_after_attempt(PageMaxAttempts, attempt) THEN "raise"
    ELSE "sleep"

(***************************************************************************)
(* resolve._paginate_all, called directly (kind "sync") or as the function *)
(* that paginate_all_async hands to run_sdk (kind "paginate").             *)
(***************************************************************************)
\* _paginate_all is entered: all_results = [], cursor = None
PaginateBegin(t) ==
    /\ t \in tasks
    /\ kind[t] # "call"
    /\ ppc[t] = "off"
    /\ pc[t] = (IF kind[t] = "sync" THEN "idle" ELSE "thread")
    /\ pc' = [pc EXCEPT ![t] = IF kind[t] = "sync" THEN "sync" ELSE @]
    /\ ppc' = [ppc EXCEPT ![t] = "fetch"]
    /\ all_results' = [all_results EXCEPT ![t] = <<>>]
    /\ cursor' = [cursor EXCEPT ![t] = 0]
    /\ page_attempt' = [page_attempt EXCEPT ![t] = 1]
    /\ page_outcome' = [page_outcome EXCEPT ![t] = NoOutcome]
    /\ received' = [received EXCEPT ![t] = <<>>]
    /\ call_count' = [call_count EXCEPT ![t] = @ + 1]
    /\ UNCHANGED <<cacheVars, setup, attempt_number, outcome, result, retry_fails,
                   sem_value, sem_waiters, req_count, fetched_ok>>

\* _paginate_all is left with outcome o: its direct caller gets o, or the
\* attempt of run_sdk that ran it ends with o
PaginateEnds(t, o) ==
    /\ IF kind[t] = "sync"
       THEN /\ pc' = [pc EXCEPT ![t] = "done"]
            /\ result' = [result EXCEPT ![t] = o]
            /\ UNCHANGED <<outcome, sem_value>>
       ELSE AttemptEnds(t, o)
    /\ retry_fails' =
          [retry_fails EXCEPT
              ![t] = IF kind[t] = "paginate" /\ o.kind = "raise"
                        /\ o.cls = "HttpError"
                        /\ o.status_code \in {429, 502, 503, 504}
                     THEN @ + 1 ELSE @]

\* a loop body that puts the page's results in front
extend_in_front(results, page_results) == page_results \o results

\* the loop body appends the page's results
extend(results, page_results) == results \o page_results

\* One pass of the loop of _paginate_all: _fetch_page invokes list_fn with
\* per_page=100 and the cursor.  A page extends all_results and either
\* ends the loop (the function returns all_results) or gives the next
\* cursor; an exception is retried by _fetch_page after a sleep, or leaves
\* _paginate_all.
FetchPage(t) ==
    /\ t \in tasks
    /\ ppc[t] = "fetch"
    /\ LET q == PaginatedQueryParams(PerPage, cursor[t])
           resp == Response(q.cursor)
       IN \E o \in ListFnOutcomes(q) :
          LET d == PageRetryDecision(o, page_attempt[t])
              got == extend(all_results[t], resp.results)
          IN
          /\ page_outcome' = [page_outcome EXCEPT ![t] = o]
          /\ req_count' =
                [req_count EXCEPT ![t] = IF q.cursor = watch THEN @ + 1 ELSE @]
          /\ fetched_ok' =
                [fetched_ok EXCEPT
                    ![t] = IF q.cursor = watch /\ o.kind = "return" THEN TRUE ELSE @]
          /\ CASE d = "sleep" ->
                    /\ ppc' = [ppc EXCEPT ![t] = "sleep"]
                    /\ UNCHANGED <<cursor, all_results, received, page_attempt,
                                   pc, outcome, result, sem_value, retry_fails>>
               [] d = "raise" ->
                    /\ ppc' = [ppc EXCEPT ![t] = "off"]
                    /\ PaginateEnds(t, o)
                    /\ UNCHANGED <<cursor, all_results, received, page_attempt>>
               [] d = "return" /\ resp.next_page_results ->
                    /\ all_results' = [all_results EXCEPT ![t] = got]
                    /\ received' =
                          [received EXCEPT
                              ![t] = Append(@, [params |-> q, page |-> resp.page])]
                    /\ cursor' = [cursor EXCEPT ![t] = resp.next_cursor]
                    /\ page_attempt' = [page_attempt EXCEPT ![t] = 1]
                    /\ UNCHANGED <<ppc, pc, outcome, result, sem_value, retry_fails>>
               [] d = "return" /\ ~resp.next_page_results ->
                    /\ all_results' = [all_results EXCEPT ![t] = got]
                    /\ received' =
                          [received EXCEPT
                              ![t] = Append(@, [params |-> q, page |-> resp.page])]
                    /\ ppc' = [ppc EXCEPT ![t] = "off"]
                    /\ PaginateEnds(t, Returned(got))
                    /\ UNCHANGED <<cursor, page_attempt>>
    /\ UNCHANGED <<cacheVars, setup, attempt_number, call_count, sem_waiters>>

\* the sleep of _fetch_page's retry loop is over: the same page is
\* requested again
PageRetry(t) ==
    /\ t \in tasks
    /\ ppc[t] = "sleep"
    /\ ppc' = [ppc EXCEPT ![t] = "fetch"]
    /\ page_attempt' = [page_attempt EXCEPT ![t] = @ + 1]
    /\ UNCHANGED <<cacheVars, setup, pc, attempt_number, outcome, result, call_count,
                   retry_fails, sem_value, sem_waiters, cursor, all_results,
                   page_outcome, received, req_count, fetched_ok>>

(***************************************************************************)
(* cache.py: keys, fetched items and their conversion.                     *)
(*                                                                         *)
(* A fetched item is a Pydantic model (it has model_dump) or a plain dict; *)
(* "fields" stands for the item's content.  The Python None of project_id  *)
(* is written "None".                                                      *)
(***************************************************************************)
\* sha256(base_url).hexdigest()[:12] of the configured base URL
_url_hash == "abc123"

\* `if project_id:`
Truthy(project_id) == project_id \notin {"None", ""}

_cache_key(resource, workspace, project_id) ==
    IF Truthy(project_id)
    THEN _url_hash \o ":" \o resource \o ":" \o workspace \o ":" \o project_id
    ELSE _url_hash \o ":" \o resource \o ":" \o workspace

\* the listings the callers ask for: (resource, workspace, project_id).
\* The workspace slug is taken from the configuration as it is written
\* there, and project_id is any string or None.
CacheTuples ==
    {<<"states", "ws", "pA">>, <<"projects", "ws", "None">>,
     <<"states", "ws:pA", "None">>, <<"projects", "ws", "">>}

CacheKeys == {_cache_key(tp[1], tp[2], tp[3]) : tp \in CacheTuples}

Model(f) == [has_model_dump |-> TRUE, fields |-> f]

Dict(f) == [has_model_dump |-> FALSE, fields |-> f]

model_dump(item) == Dict(item.fields)

\* what fetch_fn may return, and what it may raise
FetchResults == {<<>>, <<Model("1")>>, <<Dict("1"), Model("2")>>}

FetchOutcomes ==
    {Returned(r) : r \in FetchResults} \cup {Raised(HttpError(404))}

\* the exception of a failing cache.get / cache.set / cache.delete
CacheError == [cls |-> "CacheError", status_code |-> 0]

\* data = [item.model_dump() if hasattr(item, "model_dump") else item ...]
Convert(results) ==
    [i \in DOMAIN results |->
        IF results[i].has_model_dump THEN model_dump(results[i]) ELSE results[i]]

\* a read path that ignores the no-cache flag
AlwaysReads == FALSE

\* `if not _no_cache:` -- the cache read is skipped in no-cache mode
SkipsRead == _no_cache

\* a test that never finds an entry
NeverHit(cached) == FALSE

\* `if cached:` -- a test that takes a stored empty list for no entry
IsHitUnlessEmpty(cached) == cached # <<>> /\ cached[1] # <<>>

\* `if cached is not None:` -- <<>> is the None of a missing entry
IsHit(cached) == cached # <<>>

\* a read path that lets the error of cache.get reach the caller
ReadErrorRaised == FALSE

\* `except Exception` around cache.get: the error is logged and the call
\* goes on to fetch
ReadErrorFallsBack == TRUE

\* a write path that lets the error of cache.set reach the caller
WriteErrorRaised == FALSE

\* `except Exception` around cache.set: the error is logged and the call
\* goes on to `return data`
WriteErrorSwallowed == TRUE

\* a set that keeps the entry that is there: the first write wins
cache_set_if_absent(store, key, data) ==
    IF cache_enabled /\ store[key] = <<>> THEN [store EXCEPT ![key] = <<data>>]
    ELSE store

\* cache.set(key, data, expire=ttl): the zero-size store keeps nothing
cache_set(store, key, data) ==
    IF cache_enabled THEN [store EXCEPT ![key] = <<data>>] ELSE store

\* a delete that takes every entry with it
cache_delete_every_entry(store, key) == [k \in DOMAIN store |-> <<>>]

\* cache.delete(key)
cache_delete(store, key) == [store EXCEPT ![key] = <<>>]

(***************************************************************************)
(* A _cached_list call.  The record of a call keeps, beside its position   *)
(* and result, what happened in it: nocache (the flag as the call read     *)
(* it), cold (no entry when it began), fetches (invocations of fetch_fn),  *)
(* read_error / write_error (cache.get / cache.set raised), fetched (what  *)
(* fetch_fn did), quiet (since the call returned, the entry of its key was *)
(* not invalidated and did not expire) and quiet_pair (the same, from the  *)
(* return of the caller's previous call, made with the same key, to the    *)
(* return of this one).  prev_call keeps the previous call when this call  *)
(* began with the same key and the entry undisturbed in between.           *)
(* invalidated: since the call returned, invalidate_resource deleted the   *)
(* entry of its key and nothing was stored under it; after_invalidate: the *)
(* caller's previous call was for the same key and was invalidated.        *)
(***************************************************************************)
NoCall ==
    [pc |-> "none", key |-> "", nocache |-> FALSE, cold |-> FALSE, fetches |-> 0,
     read_error |-> FALSE, write_error |-> FALSE, fetched |-> NoOutcome,
     result |-> NoOutcome, quiet |-> FALSE, quiet_pair |-> FALSE,
     invalidated |-> FALSE, after_invalidate |-> FALSE]

\* invalidate_resource deleted the entry of `key`
Invalidated(calls, key) ==
    [c \in DOMAIN calls |->
        IF calls[c].key = key /\ calls[c].pc = "returned"
        THEN [calls[c] EXCEPT !.invalidated = TRUE]
        ELSE calls[c]]

\* an entry was stored under `key`
Stored(calls, key) ==
    [c \in DOMAIN calls |->
        IF calls[c].key = key THEN [calls[c] EXCEPT !.invalidated = FALSE]
        ELSE calls[c]]

\* the entry of one of the keys `keys` was removed
Disturb(calls, keys) ==
    [c \in DOMAIN calls |->
        IF calls[c].key \in keys
        THEN [calls[c] EXCEPT
                 !.quiet = FALSE,
                 !.quiet_pair = IF calls[c].pc = "returned" THEN @ ELSE FALSE]
        ELSE calls[c]]

\* _cached_list(key, ttl, fetch_fn) is called, through one of the
\* cached_list_* functions: the no-cache flag decides whether the cache is
\* read
_cached_list_called(c, key) ==
    /\ c \in callers
    /\ cached_call[c].pc \in {"none", "returned"}
    /\ prev_call' =
          [prev_call EXCEPT
              ![c] = IF /\ cached_call[c].pc = "returned"
                        /\ cached_call[c].key = key
                        /\ cached_call[c].quiet
                     THEN [cached_call[c] EXCEPT
                              !.fetched = NoOutcome, !.read_error = FALSE,
                              !.quiet = FALSE, !.quiet_pair = FALSE,
                              !.after_invalidate = FALSE]
                     ELSE NoCall]
    /\ cached_call' =
          [cached_call EXCEPT
              ![c] = [NoCall EXCEPT
                         !.pc = IF SkipsRead THEN "fetch" ELSE "read",
                         !.key = key,
                         !.nocache = _no_cache,
                         !.cold = (cache_store[key] = <<>>),
                         !.quiet_pair = /\ cached_call[c].pc = "returned"
                                        /\ cached_call[c].key = key
                                        /\ cached_call[c].quiet,
                         !.after_invalidate = /\ cached_call[c].pc = "returned"
                                              /\ cached_call[c].key = key
                                              /\ cached_call[c].invalidated]]

CachedList(c, key) ==
    /\ _cached_list_called(c, key)
    /\ UNCHANGED <<runVars, callers, cache_enabled, cache_store, _no_cache>>

\* `cached = await cache.get(key)` ends: it raised (the error is logged),
\* or it gave the entry, which is returned, or None
CacheGet(c) ==
    /\ c \in callers
    /\ cached_call[c].pc = "read"
    /\ \E ok \in BOOLEAN :
          LET cached == cache_store[cached_call[c].key] IN
          cached_call' =
             [cached_call EXCEPT
                 ![c] = IF ~ok
                        THEN IF ReadErrorFallsBack
                             THEN [@ EXCEPT !.read_error = TRUE, !.pc = "fetch"]
                             ELSE [@ EXCEPT !.read_error = TRUE, !.pc = "returned",
                                            !.result = Raised(CacheError)]
                        ELSE IF IsHit(cached)
                        THEN [@ EXCEPT !.pc = "returned", !.quiet = TRUE,
                                       !.result = Returned(cached[1])]
                        ELSE [@ EXCEPT !.pc = "fetch"]]
    /\ UNCHANGED <<runVars, callers, cache_enabled, cache_store, _no_cache, prev_call>>

\* `results = await fetch_fn()` ends: an exception of fetch_fn leaves
\* _cached_list, a list goes on to be converted and stored
FetchEnds(c, o) ==
    /\ c \in callers
    /\ cached_call[c].pc = "fetch"
    /\ cached_call' =
          [cached_call EXCEPT
              ![c] = IF o.kind = "raise"
                     THEN [@ EXCEPT !.fetches = @ + 1, !.fetched = o,
                                    !.pc = "returned", !.result = o,
                                    !.quiet = TRUE]
                     ELSE [@ EXCEPT !.fetches = @ + 1, !.fetched = o,
                                    !.pc = "write"]]
    /\ UNCHANGED <<runVars, callers, cache_enabled, cache_store, _no_cache, prev_call>>

FetchFn(c) == \E o \in FetchOutcomes : FetchEnds(c, o)

\* `await cache.set(key, data, expire=ttl)` ends, stored or raised (the
\* error is logged); `return data`
CacheSet(c) ==
    /\ c \in callers
    /\ cached_call[c].pc = "write"
    /\ \E ok \in BOOLEAN :
          LET data == Convert(cached_call[c].fetched.value) IN
          /\ cache_store' =
                IF ok THEN cache_set(cache_store, cached_call[c].key, data)
                ELSE cache_store
          /\ cached_call' =
                [(IF ok /\ cache_enabled
                  THEN Stored(cached_call, cached_call[c].key)
                  ELSE cached_call) EXCEPT
                    ![c] = [@ EXCEPT !.write_error = ~ok, !.pc = "returned",
                                     !.result = IF ok \/ WriteErrorSwallowed
                                                THEN Returned(data)
                                                ELSE Raised(CacheError),
                                     !.quiet = TRUE]]
    /\ UNCHANGED <<runVars, callers, cache_enabled, _no_cache, prev_call>>

\* set_no_cache(value)
SetNoCache(value) ==
    /\ callers # {}
    /\ value # _no_cache
    /\ _no_cache' = value
    /\ UNCHANGED <<runVars, callers, cache_enabled, cache_store, cached_call, prev_call>>

\* invalidate_resource(resource, workspace, project_id): cache.delete of
\* the key, whose error is logged
invalidate_resource(resource, workspace, project_id, ok) ==
    LET key == _cache_key(resource, workspace, project_id) IN
    /\ cache_store' = IF ok THEN cache_delete(cache_store, key) ELSE cache_store
    /\ cached_call' =
          IF ok THEN Invalidated(Disturb(cached_call, {key}), key)
          ELSE cached_call

InvalidateResource(resource, workspace, project_id) ==
    /\ callers # {}
    /\ \E ok \in BOOLEAN : invalidate_resource(resource, workspace, project_id, ok)
    /\ UNCHANGED <<runVars, callers, cache_enabled, _no_cache, prev_call>>

\* invalidate_all(): cache.clear(), or the cache directory is deleted
InvalidateAll ==
    /\ callers # {}
    /\ cache_store' = [k \in DOMAIN cache_store |-> <<>>]
    /\ cached_call' = Disturb(cached_call, DOMAIN cache_store)
    /\ UNCHANGED <<runVars, callers, cache_enabled, _no_cache, prev_call>>

\* the TTL of an entry runs out
Expire(key) ==
    /\ callers # {}
    /\ cache_store[key] # <<>>
    /\ cache_store' = cache_delete(cache_store, key)
    /\ cached_call' = Disturb(cached_call, {key})
    /\ UNCHANGED <<runVars, callers, cache_enabled, _no_cache, prev_call>>

(***************************************************************************)
(* commands/*.py: the create, update and delete handlers of the resource   *)
(* kinds whose listing is cached.  A handler resolves its arguments, calls *)
(* run_sdk(client.<kind>.create / update / delete, ...), and goes on when  *)
(* that returned; a PlaneError leaves it through handle_api_error.  Only   *)
(* the handlers of modules.py call invalidate_resource after the write.    *)
(* The record keeps the kind and the workspace and project of the listing  *)
(* the write changes, and whether cache.delete raised.                     *)
(***************************************************************************)
NoCommand ==
    [pc |-> "none", resource |-> "", workspace |-> "", project_id |-> "",
     delete_error |-> FALSE]

\* `await invalidate_resource("modules", workspace, project_id)` follows the
\* write in modules.py; labels.py, cycles.py, projects.py and states.py have
\* no such call
InvalidatesAfterWrite(resource) == resource = "modules"

\* the create, update or delete handler of the kind is entered and reaches
\* its run_sdk(client.<kind>.<op>, ...)
WriteCommand(resource, workspace, project_id) ==
    /\ command.pc \in {"none", "done", "failed"}
    /\ \A c \in callers : cached_call[c].pc \in {"none", "returned"}
    /\ command' = [NoCommand EXCEPT
                      !.pc = "write", !.resource = resource,
                      !.workspace = workspace, !.project_id = project_id]
    /\ UNCHANGED <<inputs, resolver, sdkVars, cacheVars>>

\* the write ends: it raised, and the handler raises handle_api_error(e);
\* or it returned, and the handler goes on to its end, in modules.py by way
\* of invalidate_resource
WriteEnds ==
    /\ command.pc = "write"
    /\ \E written, ok \in BOOLEAN :
          IF ~written
          THEN /\ command' = [command EXCEPT !.pc = "failed"]
               /\ UNCHANGED <<cache_store, cached_call>>
          ELSE IF InvalidatesAfterWrite(command.resource)
          THEN /\ invalidate_resource(command.resource, command.workspace,
                                      command.project_id, ok)
               /\ command' = [command EXCEPT !.pc = "done", !.delete_error = ~ok]
          ELSE /\ command' = [command EXCEPT !.pc = "done"]
               /\ UNCHANGED <<cache_store, cached_call>>
    /\ UNCHANGED <<inputs, resolver, sdkVars, callers, cache_enabled, _no_cache,
                   prev_call>>

(***************************************************************************)
(* utils/resolve.py: the queries and their patterns.  A query is the       *)
(* sequence of its characters.                                             *)
(***************************************************************************)
LowerCase == <<"a", "b", "c", "d", "e", "f", "g", "h", "i", "j", "k", "l", "m", "n", "o", "p", "q", "r", "s", "t", "u", "v", "w", "x", "y", "z">>

UpperCase == <<"A", "B", "C", "D", "E", "F", "G", "H", "I", "J", "K", "L", "M", "N", "O", "P", "Q", "R", "S", "T", "U", "V", "W", "X", "Y", "Z">>

Digits == <<"0", "1", "2", "3", "4", "5", "6", "7", "8", "9">>

Letters == {LowerCase[i] : i \in DOMAIN LowerCase} \cup {UpperCase[i] : i \in DOMAIN UpperCase}

DigitChars == {Digits[i] : i \in DOMAIN Digits}

\* [0-9a-f] under re.IGNORECASE
HexChars == DigitChars \cup {LowerCase[i] : i \in 1 .. 6} \cup {UpperCase[i] : i \in 1 .. 6}

\* str.upper() and str.lower(), character by character
UpperChar(ch) ==
    IF \E i \in DOMAIN LowerCase : LowerCase[i] = ch
    THEN UpperCase[CHOOSE i \in DOMAIN LowerCase : LowerCase[i] = ch]
    ELSE ch

LowerChar(ch) ==
    IF \E i \in DOMAIN UpperCase : UpperCase[i] = ch
    THEN LowerCase[CHOOSE i \in DOMAIN UpperCase : UpperCase[i] = ch]
    ELSE ch

upper(str) == [i \in DOMAIN str |-> UpperChar(str[i])]

\* a lower() that leaves the letters as they are
lower_nothing(str) == str

lower(str) == [i \in DOMAIN str |-> LowerChar(str[i])]

\* `$` of a pattern given to re.match: the end of the string, or the place
\* before a newline that ends the string
BeforeEnd(str) ==
    IF Len(str) > 0 /\ str[Len(str)] = "\n" THEN SubSeq(str, 1, Len(str) - 1)
    ELSE str

\* UUID_PATTERN: ^[0-9a-f]{8}-[0-9a-f]{4}-[0-9a-f]{4}-[0-9a-f]{4}-[0-9a-f]{12}$
UuidHyphens == {9, 14, 19, 24}

UuidForm(str) ==
    /\ Len(str) = 36
    /\ \A i \in 1 .. 36 :
          IF i \in UuidHyphens THEN str[i] = "-" ELSE str[i] \in HexChars

\* a check that takes no query for a UUID
_is_uuid_never(value) == FALSE

_is_uuid(value) == UuidForm(value) \/ UuidForm(BeforeEnd(value))

\* ISSUE_ID_PATTERN: ^([A-Z]{1,10})-(\d+)$ under re.IGNORECASE; the result
\* is <<>> (no match) or <<group(1), group(2)>>
IssueIdGroups(str) ==
    IF \E h \in 2 .. 11 :
          /\ h < Len(str)
          /\ str[h] = "-"
          /\ \A i \in 1 .. h - 1 : str[i] \in Letters
          /\ \A i \in h + 1 .. Len(str) : str[i] \in DigitChars
    THEN LET h == CHOOSE h \in 2 .. 11 : h <= Len(str) /\ str[h] = "-" IN
         <<SubSeq(str, 1, h - 1), SubSeq(str, h + 1, Len(str))>>
    ELSE <<>>

ISSUE_ID_PATTERN_match(str) ==
    IF IssueIdGroups(str) # <<>> THEN IssueIdGroups(str)
    ELSE IssueIdGroups(BeforeEnd(str))

\* int(digits)
DigitValue(ch) == (CHOOSE i \in DOMAIN Digits : Digits[i] = ch) - 1

RECURSIVE int(_)
int(digits) ==
    IF digits = <<>> THEN 0
    ELSE 10 * int(SubSeq(digits, 1, Len(digits) - 1)) + DigitValue(digits[Len(digits)])

\* the queries of the runs: two UUIDs, two structured identifiers, three
\* spellings of "me", a name and a name that misses the identifier form
UuidQuery == <<"0", "a", "1", "b", "2", "c", "3", "d", "-", "4", "e", "5", "f", "-", "4", "0", "0", "0", "-", "8", "0", "0", "0", "-", "0", "1", "2", "3", "4", "5", "6", "7", "8", "9", "a", "b">>

UuidQueryUpper == <<"0", "A", "1", "B", "2", "C", "3", "D", "-", "4", "E", "5", "F", "-", "4", "0", "0", "0", "-", "8", "0", "0", "0", "-", "0", "1", "2", "3", "4", "5", "6", "7", "8", "9", "A", "B">>

UuidQueries == {UuidQuery, UuidQueryUpper}

IdQuery == <<"F", "E", "-", "4", "2">>

IdQueryLower == <<"f", "e", "-", "0", "0", "7">>

IdQueries == {IdQuery, IdQueryLower}

MeQueries == {<<"m", "e">>, <<"M", "e">>, <<"M", "E">>}

NameQuery == <<"b", "a", "c", "k", "e", "n", "d">>

NameQueries == {NameQuery, <<"F", "E", "-">>}

Queries == UuidQueries \cup IdQueries \cup MeQueries \cup NameQueries

(***************************************************************************)
(* utils/resolve.py: the resolvers.  fn names the resolver: "project" is   *)
(* resolve_project_async and so on, "across" is                            *)
(* resolve_work_item_across_projects_async and "across_sync" is            *)
(* resolve_work_item_across_projects.  The remote calls of the async       *)
(* resolvers are run_sdk calls (task 1, or task i for the i-th project of  *)
(* the UUID fan-out); their listings come through _cached_list, but for    *)
(* work items, whose listing is paginate_all_async; the sync resolver      *)
(* calls the client directly.  The record keeps the position (pc, and      *)
(* awaiting: the _cached_list call is under way), the listing (items),     *)
(* the index of the sync loop over the projects, the remote calls of the   *)
(* sync resolver, what the structured lookup asks for, and the result.     *)
(***************************************************************************)
ResolverFns ==
    {"project", "module", "state", "cycle", "label", "work_item", "across",
     "across_sync", "user"}

Workspace == "ws"

ProjectId == "pA"

ResourceNotFoundError(resource_type, identifier) ==
    [cls |-> "ResourceNotFoundError", status_code |-> 0,
     resource_type |-> resource_type, identifier |-> identifier]

NoException == [cls |-> "-", status_code |-> 0]

NoResult == [kind |-> "none", value |-> <<>>, exc |-> NoException]

ResolverReturns(v) == [kind |-> "return", value |-> v, exc |-> NoException]

ResolverRaises(e) == [kind |-> "raise", value |-> <<>>, exc |-> e]

\* the exception an outcome raised
ExceptionOf(o) == [cls |-> o.cls, status_code |-> o.status_code]

\* the first argument of ResourceNotFoundError in each resolver
ResourceType(fn) ==
    CASE fn = "project" -> "Project"
      [] fn = "module" -> "Module"
      [] fn = "state" -> "State"
      [] fn = "cycle" -> "Cycle"
      [] fn = "label" -> "Label"
      [] fn = "user" -> "User"
      [] OTHER -> "Work item"

\* f"{query} (specify --project for fuzzy name search)"
NameSearchHint ==
    <<" ", "(", "s", "p", "e", "c", "i", "f", "y", " ", "-", "-", "p",
      "r", "o", "j", "e", "c", "t", " ", "f", "o", "r", " ", "f", "u",
      "z", "z", "y", " ", "n", "a", "m", "e", " ", "s", "e", "a", "r",
      "c", "h", ")">>

\* a work item as the raw _get returns it: a dict, with or without the
\* "project" key
WorkItem(id, project) ==
    [has_model_dump |-> FALSE, fields |-> id, project |-> project]

\* the id of the record taken for its project
GetId(item_dict) == item_dict.fields

\* item_dict.get("project", "")
GetProject(item_dict) ==
    IF "project" \in DOMAIN item_dict THEN item_dict.project ELSE ""

\* `{}`
EmptyDict == Dict("")

WorkItemFns == {"work_item", "across", "across_sync"}

\* what the remote may answer to a retrieve, or to the structured lookup
ResolveErrors ==
    {HttpError(429), HttpError(503), HttpError(404), HttpError(401),
     HttpError(500)} \cup OtherErrors

RetrieveOutcomes(fn) ==
    {Returned(<<it>>) :
        it \in IF fn \in WorkItemFns THEN {WorkItem("w1", "pB"), Dict("w1")}
               ELSE {Model("r1")}}
    \cup {Raised(e) : e \in ResolveErrors}

\* what client.users.get_me, through run_sdk, gives cached_get_me's _fetch
MeOutcomes == {Returned(<<Model("me")>>), Raised(HttpError(401))}

NoRequest == [project_identifier |-> <<>>, issue_number |-> 0]

\* f"{workspace}/work-items/{project_identifier}-{issue_number}"
StructuredRequest(query) ==
    LET id_match == ISSUE_ID_PATTERN_match(query) IN
    [project_identifier |-> upper(id_match[1]), issue_number |-> int(id_match[2])]

NoResolver ==
    [pc |-> "none", fn |-> "", query |-> <<>>, awaiting |-> FALSE,
     items |-> <<>>, index |-> 0, remote_calls |-> 0, request |-> NoRequest,
     result |-> NoResult, client |-> "client"]

\* the client whose method the run_sdk call of task t runs in its worker
\* thread: `client.work_items._get` in every _try_project of the gather,
\* `client.<kind>.retrieve` elsewhere -- the one client the resolver was given
TaskClient(t) == resolver.client

\* the branches of resolve_work_item_across_projects(_async); one that
\* takes a plain name to the project listing
AcrossPathListsNames(query) ==
    IF ISSUE_ID_PATTERN_match(query) # <<>> THEN "lookup" ELSE "list"

AcrossPath(query) ==
    IF ISSUE_ID_PATTERN_match(query) # <<>> THEN "lookup"
    ELSE IF _is_uuid(query) THEN "list"
    ELSE "reject"

\* the branch a resolver takes for a query
Path(fn, query) ==
    CASE fn = "across" -> AcrossPath(query)
      [] fn = "across_sync" ->
            IF AcrossPath(query) = "reject" THEN "reject"
            ELSE "sync_" \o AcrossPath(query)
      [] fn = "user" -> IF lower(query) = <<"m", "e">> THEN "me" ELSE "members"
      [] fn = "work_item" ->
            IF _is_uuid(query) THEN "retrieve"
            ELSE IF ISSUE_ID_PATTERN_match(query) # <<>> THEN "lookup"
            ELSE "paginate"
      [] OTHER -> IF _is_uuid(query) THEN "retrieve" ELSE "list"

\* the listing a resolver reads through the cache: cached_get_me,
\* cached_list_members, cached_list_projects, cached_list_<kind>
ListTuple(fn, path) ==
    CASE path = "me" -> <<"me", Workspace, "None">>
      [] path = "members" -> <<"members", Workspace, "None">>
      [] fn \in {"project", "across"} -> <<"projects", Workspace, "None">>
      [] OTHER -> <<fn \o "s", Workspace, ProjectId>>

ListKey(fn, path) ==
    _cache_key(ListTuple(fn, path)[1], ListTuple(fn, path)[2], ListTuple(fn, path)[3])

ResolveKeys ==
    {ListKey(fn, path) :
        fn \in {"project", "module", "state", "cycle", "label", "user"},
        path \in {"list", "me", "members"}}

\* a handler without _reraise_if_retryable: every HttpError becomes not-found
HandleErrorNeverReraises(o, resource_type, query) ==
    IF o.cls = "HttpError"
    THEN ResolverRaises(ResourceNotFoundError(resource_type, query))
    ELSE ResolverRaises(ExceptionOf(o))

\* `except HttpError as e: _reraise_if_retryable(e);
\*  raise ResourceNotFoundError(<kind>, query)`: a retryable HttpError is
\* raised again, any other HttpError becomes not-found; what is no
\* HttpError is not caught
HandleError(o, resource_type, query) ==
    IF o.cls = "HttpError" /\ ~resolve_is_retryable(o)
    THEN ResolverRaises(ResourceNotFoundError(resource_type, query))
    ELSE ResolverRaises(ExceptionOf(o))

\* _try_project lets it through: `return None` is for the other HttpErrors
Propagates(o) ==
    o.kind = "raise" /\ ~(o.cls = "HttpError" /\ ~resolve_is_retryable(o))

\* the resolver is entered and takes its branch; the bare name of
\* resolve_work_item_across_projects(_async) is refused here
ResolveBegin ==
    /\ resolver.pc = "start"
    /\ LET path == Path(resolver.fn, resolver.query) IN
       resolver' =
          IF path = "reject"
          THEN [resolver EXCEPT
                   !.pc = "done",
                   !.result = ResolverRaises(ResourceNotFoundError("Work item",
                                  resolver.query \o NameSearchHint))]
          ELSE [resolver EXCEPT
                   !.pc = path,
                   !.request = IF path \in {"lookup", "sync_lookup"}
                               THEN StructuredRequest(resolver.query)
                               ELSE NoRequest]
    /\ UNCHANGED <<inputs, command, sdkVars, cacheVars>>

\* the run_sdk calls the resolver may start: the retrieve or the lookup,
\* or, in asyncio.gather, the retrieve in each project
CallableTasks ==
    IF resolver.pc \in {"retrieve", "lookup"} THEN {1}
    ELSE IF resolver.pc = "gather" THEN 1 .. Len(resolver.items)
    ELSE {}

\* a _try_project of the gather has raised, and the gather with it
GatherFailed ==
    /\ resolver.pc = "gather"
    /\ \E t \in 1 .. Len(resolver.items) : pc[t] = "done" /\ Propagates(result[t])

SdkCall(t) ==
    /\ t \in CallableTasks
    /\ Call(t)

\* the worker threads go on; within a gather the calls have all been
\* started when the first ends, and the exception of the first branch that
\* raises is the gather's
SdkInvoke(t) ==
    /\ ~GatherFailed
    /\ \A u \in CallableTasks : pc[u] # "idle"
    /\ Invoke(t)

SdkRetry(t) ==
    /\ ~GatherFailed
    /\ Retry(t)

\* `await run_sdk(client.<kind>.retrieve, ...)` or the structured lookup
\* ends: the record is returned (with its project, across projects) or the
\* error is handled
RetrieveEnds ==
    /\ resolver.pc \in {"retrieve", "lookup"}
    /\ pc[1] = "done"
    /\ resolver' =
          [resolver EXCEPT
              !.pc = "done",
              !.result =
                  IF result[1].kind # "return"
                  THEN HandleError(result[1], ResourceType(resolver.fn),
                                   resolver.query)
                  ELSE IF resolver.fn = "across"
                  THEN ResolverReturns(<<result[1].value[1],
                                         GetProject(result[1].value[1])>>)
                  ELSE ResolverReturns(Convert(result[1].value))]
    /\ UNCHANGED <<inputs, command, sdkVars, cacheVars>>

\* `await cached_list_<kind>(...)` / `await cached_get_me(workspace)`
ListCall(c) ==
    /\ resolver.pc \in {"list", "me", "members"}
    /\ ~resolver.awaiting
    /\ _cached_list_called(c, ListKey(resolver.fn, resolver.pc))
    /\ resolver' = [resolver EXCEPT !.awaiting = TRUE]
    /\ UNCHANGED <<inputs, command, sdkVars, callers, cache_enabled, cache_store,
                   _no_cache>>

\* fetch_fn of the listing, or of cached_get_me
ResolverFetch(c) ==
    IF resolver.pc = "me" THEN \E o \in MeOutcomes : FetchEnds(c, o)
    ELSE FetchFn(c)

\* the _cached_list call is back: its exception is the resolver's;
\* cached_get_me gives `result[0] if result else {}`; the project listing
\* goes to the gather and any other listing to the matching
ListEnds(c) ==
    /\ resolver.awaiting
    /\ cached_call[c].pc = "returned"
    /\ LET r == cached_call[c].result IN
       resolver' =
          IF r.kind = "raise"
          THEN [resolver EXCEPT !.pc = "done", !.awaiting = FALSE,
                                !.result = ResolverRaises(ExceptionOf(r))]
          ELSE IF resolver.pc = "me"
          THEN [resolver EXCEPT
                   !.pc = "done", !.awaiting = FALSE,
                   !.result = ResolverReturns(
                       <<IF r.value # <<>> THEN r.value[1] ELSE EmptyDict>>)]
          ELSE [resolver EXCEPT
                   !.pc = IF resolver.fn = "across" THEN "gather" ELSE "match",
                   !.awaiting = FALSE, !.items = r.value]
    /\ UNCHANGED <<inputs, command, sdkVars, cacheVars>>

\* paginate_all_async(client.work_items.list, ...) of resolve_work_item_async
\* or _paginate_all(client.projects.list, workspace) of the sync resolver
\* ends (the pagination itself is the subject of SpecPage)
ListingEnds ==
    /\ resolver.pc \in {"paginate", "sync_list"}
    /\ \E o \in FetchOutcomes :
          resolver' =
             IF o.kind = "raise"
             THEN [resolver EXCEPT !.pc = "done",
                                   !.result = ResolverRaises(ExceptionOf(o))]
             ELSE [resolver EXCEPT
                      !.pc = IF resolver.pc = "paginate" THEN "match"
                             ELSE "sync_loop",
                      !.items = o.value, !.index = 1]
    /\ UNCHANGED <<inputs, command, sdkVars, cacheVars>>

\* the exact and fuzzy matching over the listing picks one of its items or
\* none (the scores are rapidfuzz's)
Match ==
    /\ resolver.pc = "match"
    /\ \E m \in 0 .. Len(resolver.items) :
          resolver' =
             [resolver EXCEPT
                 !.pc = "done",
                 !.result =
                     IF m = 0
                     THEN ResolverRaises(ResourceNotFoundError(
                              ResourceType(resolver.fn), resolver.query))
                     ELSE ResolverReturns(Convert(<<resolver.items[m]>>))]
    /\ UNCHANGED <<inputs, command, sdkVars, cacheVars>>

\* asyncio.gather(*[_try_project(p) for p in projects]) raises what the
\* first branch to raise raised
GatherRaises(t) ==
    /\ resolver.pc = "gather"
    /\ t \in 1 .. Len(resolver.items)
    /\ pc[t] = "done"
    /\ Propagates(result[t])
    /\ resolver' = [resolver EXCEPT
                       !.pc = "done",
                       !.result = ResolverRaises(ExceptionOf(result[t]))]
    /\ UNCHANGED <<inputs, command, sdkVars, cacheVars>>

\* the gather returns the results in project order; the first that is not
\* None is returned with p["id"], and with none the item is not found
GatherReturns ==
    /\ resolver.pc = "gather"
    /\ \A t \in 1 .. Len(resolver.items) : pc[t] = "done" /\ ~Propagates(result[t])
    /\ LET found == {t \in 1 .. Len(resolver.items) : result[t].kind = "return"} IN
       resolver' =
          [resolver EXCEPT
              !.pc = "done",
              !.result =
                  IF found = {}
                  THEN ResolverRaises(ResourceNotFoundError("Work item",
                                                            resolver.query))
                  ELSE LET t == CHOOSE t \in found : \A u \in found : t <= u IN
                       ResolverReturns(<<result[t].value[1],
                                         resolver.items[t].fields>>)]
    /\ UNCHANGED <<inputs, command, sdkVars, cacheVars>>

\* the sync resolver's structured lookup: client.work_items._get(...)
SyncLookupEnds ==
    /\ resolver.pc = "sync_lookup"
    /\ \E o \in RetrieveOutcomes(resolver.fn) :
          resolver' =
             [resolver EXCEPT
                 !.pc = "done",
                 !.remote_calls = @ + 1,
                 !.result =
                     IF o.kind = "return"
                     THEN ResolverReturns(<<o.value[1], GetProject(o.value[1])>>)
                     ELSE HandleError(o, "Work item", resolver.query)]
    /\ UNCHANGED <<inputs, command, sdkVars, cacheVars>>

\* the sync resolver's `for p in projects:` -- one _get per project, until
\* one returns or raises a retryable error
SyncTryProject ==
    /\ resolver.pc = "sync_loop"
    /\ IF resolver.index > Len(resolver.items)
       THEN resolver' =
               [resolver EXCEPT
                   !.pc = "done",
                   !.result = ResolverRaises(ResourceNotFoundError("Work item",
                                                                  resolver.query))]
       ELSE \E o \in RetrieveOutcomes(resolver.fn) :
               resolver' =
                  IF o.kind = "return"
                  THEN [resolver EXCEPT
                           !.pc = "done", !.remote_calls = @ + 1,
                           !.result = ResolverReturns(
                               <<o.value[1], resolver.items[resolver.index].fields>>)]
                  ELSE IF Propagates(o)
                  THEN [resolver EXCEPT
                           !.pc = "done", !.remote_calls = @ + 1,
                           !.result = ResolverRaises(ExceptionOf(o))]
                  ELSE [resolver EXCEPT !.index = @ + 1, !.remote_calls = @ + 1]
    /\ UNCHANGED <<inputs, command, sdkVars, cacheVars>>

\* the same user query is resolved again (the assignee of a further item)
ResolveAgain ==
    /\ resolver.pc = "done"
    /\ resolver.fn = "user"
    /\ resolver' = [NoResolver EXCEPT !.pc = "start", !.fn = resolver.fn,
                                      !.query = resolver.query]
    /\ UNCHANGED <<inputs, command, sdkVars, cacheVars>>

(***************************************************************************)
(* utils/fuzzy.py: find_best_match(query, items, key, threshold).  The     *)
(* score is rapidfuzz's fuzz.token_sort_ratio of the two lower-cased       *)
(* strings: both are split at whitespace, their tokens sorted and joined   *)
(* with one space, and the score of the two joined strings is              *)
(* 100 * 2 * LCS / (len1 + len2) (100 when both are empty).  A score is    *)
(* kept as the fraction <<numerator, denominator>>.                        *)
(***************************************************************************)
CodePoint == (" " :> 32) @@ ("a" :> 97) @@ ("b" :> 98) @@ ("c" :> 99)

\* str < str of Python, character by character
RECURSIVE StrLess(_, _)
StrLess(s, t) ==
    IF t = <<>> THEN FALSE
    ELSE IF s = <<>> THEN TRUE
    ELSE IF Head(s) = Head(t) THEN StrLess(Tail(s), Tail(t))
    ELSE CodePoint[Head(s)] < CodePoint[Head(t)]

\* str.split(): the maximal runs without whitespace
RECURSIVE split(_)
split(str) ==
    IF str = <<>> THEN <<>>
    ELSE IF Head(str) = " " THEN split(Tail(str))
    ELSE LET rest == split(Tail(str)) IN
         IF Len(str) > 1 /\ str[2] # " "
         THEN <<(<<Head(str)>> \o Head(rest))>> \o Tail(rest)
         ELSE <<(<<Head(str)>>)>> \o rest

\* sorted(tokens)
RECURSIVE sorted(_)
sorted(tokens) ==
    IF tokens = <<>> THEN <<>>
    ELSE LET i == CHOOSE i \in DOMAIN tokens :
                      \A j \in DOMAIN tokens : ~StrLess(tokens[j], tokens[i])
         IN <<tokens[i]>>
                \o sorted([j \in 1 .. Len(tokens) - 1 |->
                              IF j < i THEN tokens[j] ELSE tokens[j + 1]])

\* " ".join(tokens)
RECURSIVE join(_)
join(tokens) ==
    IF tokens = <<>> THEN <<>>
    ELSE IF Len(tokens) = 1 THEN Head(tokens)
    ELSE Head(tokens) \o <<" ">> \o join(Tail(tokens))

\* the length of the longest common subsequence
RECURSIVE LCS(_, _)
LCS(s, t) ==
    IF s = <<>> \/ t = <<>> THEN 0
    ELSE IF Head(s) = Head(t) THEN 1 + LCS(Tail(s), Tail(t))
    ELSE LET a == LCS(Tail(s), t)
             b == LCS(s, Tail(t))
         IN IF a >= b THEN a ELSE b

\* fuzz.ratio: the normalized Indel similarity, times 100
ratio(s, t) ==
    IF Len(s) + Len(t) = 0 THEN <<100, 1>>
    ELSE <<200 * LCS(s, t), Len(s) + Len(t)>>

token_sort_ratio(s, t) == ratio(join(sorted(split(s))), join(sorted(split(t))))

\* the comparisons of two scores, as fractions
ScoreGE(a, b) == a[1] * b[2] >= b[1] * a[2]

ScoreGT(a, b) == a[1] * b[2] > b[1] * a[2]

MIN_MATCH_SCORE == 60

\* best: FuzzyMatch | None
None == [item |-> 0, score |-> <<0, 1>>, matched_value |-> <<>>, is_none |-> TRUE]

FuzzyMatch(item, score, matched_value) ==
    [item |-> item, score |-> score, matched_value |-> matched_value,
     is_none |-> FALSE]

\* key(item): the items are told apart by their place in the listing, and
\* an item shows the name it has there
BestMatchKey(names, item) == names[item]

\* fuzz.token_sort_ratio(query.lower(), value.lower())
Score(query, value) == token_sort_ratio(lower(query), lower(value))

\* a loop that lets a later candidate with the same score replace the best
KeepsBestOrLater(best, score) == best.is_none \/ ScoreGE(score, best.score)

\* `best is None or score > best.score`
KeepsBest(best, score) == best.is_none \/ ScoreGT(score, best.score)

NoBestMatch ==
    [pc |-> "none", query |-> <<>>, names |-> <<>>, threshold |-> <<0, 1>>,
     index |-> 0, best |-> None]

\* the names a listing may show and the queries matched against them
MaxItems == 3

MatchNames ==
    {<<"a", "b">>, <<"A", "B">>, <<"b", " ", "a">>, <<"a", " ", "b">>,
     <<"a">>, <<"a", "b", "c">>, <<"b", "a">>, <<>>}

MatchQueries == {<<"a", "b">>, <<"A", " ", "b">>, <<"c">>}

Thresholds == {<<MIN_MATCH_SCORE, 1>>, <<90, 1>>}

RECURSIVE SeqsUpTo(_, _)
SeqsUpTo(S, n) ==
    IF n = 0 THEN {<<>>}
    ELSE LET shorter == SeqsUpTo(S, n - 1) IN
         shorter \cup {Append(s, x) : s \in {s \in shorter : Len(s) = n - 1}, x \in S}

\* `for item in items:` -- one pass of the loop, or, after the last item
\* (and at once for an empty list), `return best`
BestMatchStep ==
    /\ best_match.pc = "loop"
    /\ best_match' =
          IF best_match.index > Len(best_match.names)
          THEN [best_match EXCEPT !.pc = "done"]
          ELSE LET item == best_match.index
                   value == BestMatchKey(best_match.names, item)
                   score == Score(best_match.query, value)
               IN IF ScoreGE(score, best_match.threshold)
                        /\ KeepsBest(best_match.best, score)
                  THEN [best_match EXCEPT
                           !.index = @ + 1,
                           !.best = FuzzyMatch(item, score, value)]
                  ELSE [best_match EXCEPT !.index = @ + 1]
    /\ UNCHANGED <<fixed, listing, command, resolver, sdkVars, cacheVars>>

(***************************************************************************)
(* commands/work_items.py: list_, the work-item listing.  Without          *)
(* --project one _fetch_and_enrich(p) runs for each project of the         *)
(* workspace, all in one asyncio.gather(..., return_exceptions=True); then *)
(* the results are gone through in project order: an exception is printed  *)
(* as a warning, a list is added to the data.                              *)
(***************************************************************************)
MaxProjects == 3

\* what _fetch_project_data may give for project p: the items of the
\* project (none, or one), or the exception of one of its three fetches
ProjectItems(p) == <<[has_model_dump |-> TRUE, fields |-> "w", project |-> p]>>

FetchProjectOutcomes(p) ==
    {Returned(<<>>), Returned(ProjectItems(p)), Raised(HttpError(500)),
     Raised([cls |-> "ValueError", status_code |-> 0])}

\* _enrich_work_item(i.model_dump(), ...) for the items of a project
Enriched(items, p) ==
    [i \in DOMAIN items |->
        [has_model_dump |-> FALSE, fields |-> items[i].fields, project |-> p]]

\* what a branch of the gather gave: a list, or (return_exceptions=True)
\* the exception that left _fetch_and_enrich
NoBranch ==
    [pc |-> "idle", client |-> 0, fetched |-> NoOutcome, result |-> NoOutcome]

NoListing ==
    [pc |-> "none", projects_to_list |-> <<>>, branch |-> <<>>,
     clients_created |-> 0, index |-> 0, data |-> <<>>, warnings |-> <<>>]

\* `except Exception: return []` around _fetch_project_data
FetchFailure(o) == Returned(<<>>)

\* _fetch_and_enrich(p) begins: `proj_client = create_client()`
BranchBegins(b) ==
    /\ listing.pc = "gather"
    /\ b \in DOMAIN listing.branch
    /\ listing.branch[b].pc = "idle"
    /\ listing' =
          [listing EXCEPT
              !.clients_created = @ + 1,
              !.branch[b] = [@ EXCEPT !.pc = "fetch",
                                      !.client = listing.clients_created + 1]]
    /\ UNCHANGED <<fixed, best_match, command, resolver, sdkVars, cacheVars>>

\* `await _fetch_project_data(proj_client, workspace, project_id)` ends:
\* an exception or no items end the branch with [], items go on to be
\* enriched
FetchProjectData(b) ==
    /\ listing.pc = "gather"
    /\ b \in DOMAIN listing.branch
    /\ listing.branch[b].pc = "fetch"
    /\ \E o \in FetchProjectOutcomes(listing.projects_to_list[b]) :
          listing' =
             [listing EXCEPT
                 !.branch[b] =
                     IF o.kind = "raise"
                     THEN [@ EXCEPT !.pc = "done", !.fetched = o,
                                    !.result = FetchFailure(o)]
                     ELSE IF o.value = <<>>
                     THEN [@ EXCEPT !.pc = "done", !.fetched = o,
                                    !.result = Returned(<<>>)]
                     ELSE [@ EXCEPT !.pc = "enrich", !.fetched = o]]
    /\ UNCHANGED <<fixed, best_match, command, resolver, sdkVars, cacheVars>>

\* the items are enriched; an exception raised here (an item without
\* model_dump, say) leaves _fetch_and_enrich
EnrichItems(b) ==
    /\ listing.pc = "gather"
    /\ b \in DOMAIN listing.branch
    /\ listing.branch[b].pc = "enrich"
    /\ \E ok \in BOOLEAN :
          listing' =
             [listing EXCEPT
                 !.branch[b] =
                     [@ EXCEPT
                         !.pc = "done",
                         !.result =
                             IF ok
                             THEN Returned(Enriched(listing.branch[b].fetched.value,
                                                    listing.projects_to_list[b]))
                             ELSE Raised([cls |-> "AttributeError",
                                          status_code |-> 0])]]
    /\ UNCHANGED <<fixed, best_match, command, resolver, sdkVars, cacheVars>>

\* the gather returns when every branch has ended
GatherEnds ==
    /\ listing.pc = "gather"
    /\ \A b \in DOMAIN listing.branch : listing.branch[b].pc = "done"
    /\ listing' = [listing EXCEPT !.pc = "report", !.index = 1]
    /\ UNCHANGED <<fixed, best_match, command, resolver, sdkVars, cacheVars>>

\* `for proj_dict, result in zip(projects_to_list, results):` -- one pass:
\* the warning names the project of an exception, a list extends the data
ReportResult ==
    /\ listing.pc = "report"
    /\ listing' =
          IF listing.index > Len(listing.projects_to_list)
          THEN [listing EXCEPT !.pc = "done"]
          ELSE LET r == listing.branch[listing.index].result IN
               IF r.kind = "raise"
               THEN [listing EXCEPT
                        !.index = @ + 1,
                        !.warnings =
                            Append(@, listing.projects_to_list[listing.index])]
               ELSE [listing EXCEPT !.index = @ + 1, !.data = @ \o r.value]
    /\ UNCHANGED <<fixed, best_match, command, resolver, sdkVars, cacheVars>>

(***************************************************************************)
(* Spec: NumTasks concurrent run_sdk calls on plain functions that may     *)
(* return, or raise any exception, at every invocation.                    *)
(***************************************************************************)
InitSdk(ts, outs) ==
    /\ tasks = ts
    /\ fn_outcomes = outs
    /\ ppc = [t \in ts |-> "off"]
    /\ cursor = [t \in ts |-> 0]
    /\ all_results = [t \in ts |-> <<>>]
    /\ page_attempt = [t \in ts |-> 0]
    /\ page_outcome = [t \in ts |-> NoOutcome]
    /\ received = [t \in ts |-> <<>>]
    /\ req_count = [t \in ts |-> 0]
    /\ fetched_ok = [t \in ts |-> FALSE]
    /\ pc = [t \in ts |-> "idle"]
    /\ attempt_number = [t \in ts |-> 0]
    /\ outcome = [t \in ts |-> NoOutcome]
    /\ result = [t \in ts |-> NoOutcome]
    /\ call_count = [t \in ts |-> 0]
    /\ retry_fails = [t \in ts |-> 0]
    /\ sem_value = SemaphoreSize
    /\ sem_waiters = <<>>

\* no find_best_match call and no work-item listing runs
InitTasks(ts, outs) ==
    /\ InitSdk(ts, outs)
    /\ best_match = NoBestMatch
    /\ listing = NoListing

\* the cache as setup_cache leaves it, the callers cs of _cached_list and
\* the keys they use; no command handler and no resolver runs
InitCacheKeys(cs, keys) ==
    /\ callers = cs
    /\ cache_enabled \in (IF cs = {} THEN {TRUE} ELSE BOOLEAN)
    /\ cache_store = [k \in keys |-> <<>>]
    /\ _no_cache = FALSE
    /\ cached_call = [c \in cs |-> NoCall]
    /\ prev_call = [c \in cs |-> NoCall]
    /\ command = NoCommand
    /\ resolver = NoResolver

InitCache(cs) == InitCacheKeys(cs, CacheKeys)

\* tasks that call run_sdk on plain functions; nothing is paginated, nothing
\* is read through the cache
InitCalls(ts, outs) ==
    /\ InitTasks(ts, outs)
    /\ InitCache({})
    /\ kind = [t \in ts |-> "call"]
    /\ num_pages = 1
    /\ watch = 0

Init == InitCalls(1 .. NumTasks, [t \in 1 .. NumTasks |-> FnOutcomes])

Next == \E t \in tasks : Call(t) \/ Invoke(t) \/ Retry(t)

Spec == Init /\ [][Next]_vars

(***************************************************************************)
(* SpecSem: NumSemTasks concurrent run_sdk calls, more than there are      *)
(* permits.  The tasks run the same code, so they are started in index     *)
(* order; the calls end in any order.  The scheduler of the event loop     *)
(* runs every coroutine that can run and every worker thread finishes its  *)
(* call: weak fairness of WakeUp and Invoke.  The functions of the odd     *)
(* tasks return, those of the even tasks raise 404, so that permits are    *)
(* released both on return and on raise.                                   *)
(***************************************************************************)
SemOutcomes(t) ==
    IF t % 2 = 1 THEN {Returned(<<"a">>)} ELSE {Raised(HttpError(404))}

SemTasks == 1 .. NumSemTasks

InitSem == InitCalls(SemTasks, [t \in SemTasks |-> SemOutcomes(t)])

CallInOrder(t) ==
    /\ \A u \in tasks : u < t => pc[u] # "idle"
    /\ Call(t)

NextSem == \E t \in tasks : CallInOrder(t) \/ WakeUp(t) \/ Invoke(t)

SpecSem ==
    /\ InitSem
    /\ [][NextSem]_vars
    /\ \A t \in SemTasks : WF_vars(WakeUp(t)) /\ WF_vars(Invoke(t))

(***************************************************************************)
(* SpecPage: one pagination of a listing of 1 .. MaxPages pages, by        *)
(* _paginate_all directly or through paginate_all_async; every request may *)
(* be answered with the page or with any exception.                        *)
(***************************************************************************)
PageTasks == {1}

InitPage ==
    /\ InitTasks(PageTasks, [t \in PageTasks |-> {}])
    /\ InitCache({})
    /\ \E k \in {"sync", "paginate"} : kind = [t \in PageTasks |-> k]
    /\ num_pages \in 1 .. MaxPages
    /\ watch \in 0 .. MaxPages - 1

NextPage ==
    \E t \in tasks :
        Call(t) \/ PaginateBegin(t) \/ FetchPage(t) \/ PageRetry(t) \/ Retry(t)

SpecPage == InitPage /\ [][NextPage]_vars

(***************************************************************************)
(* SpecCache: one caller makes _cached_list calls one after the other, for *)
(* any of the keys, while the no-cache flag is switched, entries are       *)
(* invalidated and expire; cache.get, cache.set and cache.delete may       *)
(* raise.  run_sdk and the pagination stay as they start.                  *)
(***************************************************************************)
CacheCallers == {"c1"}

InitCached ==
    /\ InitTasks({}, <<>>)
    /\ kind = <<>>
    /\ num_pages = 1
    /\ watch = 0
    /\ InitCache(CacheCallers)

NextCache ==
    \/ \E c \in callers, k \in CacheKeys : CachedList(c, k)
    \/ \E c \in callers : CacheGet(c)
    \/ \E c \in callers : FetchFn(c)
    \/ \E c \in callers : CacheSet(c)
    \/ \E v \in BOOLEAN : SetNoCache(v)
    \/ \E tp \in CacheTuples : InvalidateResource(tp[1], tp[2], tp[3])
    \/ InvalidateAll
    \/ \E k \in CacheKeys : Expire(k)

SpecCache == InitCached /\ [][NextCache]_vars

(***************************************************************************)
(* SpecCommands: one process after the other lists a kind through the      *)
(* cache (a name resolution) or runs a create, update or delete command    *)
(* on a kind, over one cache directory.  A run follows the listing of one  *)
(* of the five cached kinds the commands write to.                         *)
(***************************************************************************)
CommandTuples ==
    {<<"projects", "ws", "None">>, <<"modules", "ws", "pA">>,
     <<"cycles", "ws", "pA">>, <<"labels", "ws", "pA">>,
     <<"states", "ws", "pA">>}

CommandKeys == {_cache_key(tp[1], tp[2], tp[3]) : tp \in CommandTuples}

InitCommands ==
    /\ InitTasks({}, <<>>)
    /\ kind = <<>>
    /\ num_pages = 1
    /\ watch = 0
    /\ \E k \in CommandKeys : InitCacheKeys(CacheCallers, {k})

\* a name resolution lists the kind; a handler runs one thing at a time
ResolveList(c, key) ==
    /\ command.pc # "write"
    /\ CachedList(c, key)

NextCommands ==
    \/ \E c \in callers, k \in DOMAIN cache_store : ResolveList(c, k)
    \/ \E c \in callers : CacheGet(c)
    \/ \E c \in callers : FetchFn(c)
    \/ \E c \in callers : CacheSet(c)
    \/ \E tp \in CommandTuples :
          /\ _cache_key(tp[1], tp[2], tp[3]) \in DOMAIN cache_store
          /\ WriteCommand(tp[1], tp[2], tp[3])
    \/ WriteEnds

SpecCommands == InitCommands /\ [][NextCommands]_vars

(***************************************************************************)
(* SpecResolve: one resolver call, of any resolver with any of the         *)
(* queries, in a process started with or without --no-cache, with the      *)
(* cache enabled or not; the remote answers each call with a record or     *)
(* with an error.  A user query may be resolved again and again, while     *)
(* entries expire.                                                         *)
(***************************************************************************)
ResolveTasks == {1, 2}

InitResolve ==
    /\ \E fn \in ResolverFns, q \in Queries :
          /\ InitTasks(ResolveTasks, [t \in ResolveTasks |-> RetrieveOutcomes(fn)])
          /\ resolver = [NoResolver EXCEPT !.pc = "start", !.fn = fn, !.query = q]
    /\ kind = [t \in ResolveTasks |-> "call"]
    /\ num_pages = 1
    /\ watch = 0
    /\ callers = CacheCallers
    /\ cache_enabled \in BOOLEAN
    /\ cache_store = [k \in ResolveKeys |-> <<>>]
    /\ _no_cache \in BOOLEAN
    /\ cached_call = [c \in CacheCallers |-> NoCall]
    /\ prev_call = [c \in CacheCallers |-> NoCall]
    /\ command = NoCommand

NextResolve ==
    \/ ResolveBegin
    \/ \E t \in tasks : SdkCall(t) \/ SdkInvoke(t) \/ SdkRetry(t)
    \/ RetrieveEnds
    \/ \E c \in callers : ListCall(c) \/ CacheGet(c) \/ ResolverFetch(c)
    \/ \E c \in callers : CacheSet(c) \/ ListEnds(c)
    \/ ListingEnds
    \/ Match
    \/ \E t \in tasks : GatherRaises(t)
    \/ GatherReturns
    \/ SyncLookupEnds
    \/ SyncTryProject
    \/ ResolveAgain
    \/ \E k \in ResolveKeys : Expire(k)

SpecResolve == InitResolve /\ [][NextResolve]_vars

(***************************************************************************)
(* SpecFuzzy: one find_best_match call, of any query on any listing of up  *)
(* to MaxItems names, with the default threshold or with 90.               *)
(***************************************************************************)
InitFuzzy ==
    /\ InitSdk({}, <<>>)
    /\ kind = <<>>
    /\ num_pages = 1
    /\ watch = 0
    /\ InitCache({})
    /\ listing = NoListing
    /\ \E q \in MatchQueries, ns \in SeqsUpTo(MatchNames, MaxItems),
          th \in Thresholds :
          best_match = [NoBestMatch EXCEPT !.pc = "loop", !.query = q,
                                          !.names = ns, !.threshold = th,
                                          !.index = 1]

NextFuzzy == BestMatchStep

SpecFuzzy == InitFuzzy /\ [][NextFuzzy]_vars

(***************************************************************************)
(* SpecListing: one work-item listing over the 0 .. MaxProjects projects   *)
(* of the workspace; the fetch of each project gives no item, one item or  *)
(* an exception, and the enrichment may raise.                             *)
(***************************************************************************)
InitListing ==
    /\ InitSdk({}, <<>>)
    /\ kind = <<>>
    /\ num_pages = 1
    /\ watch = 0
    /\ InitCache({})
    /\ best_match = NoBestMatch
    /\ \E n \in 0 .. MaxProjects :
          listing = [NoListing EXCEPT
                        !.pc = "gather",
                        !.projects_to_list = [b \in 1 .. n |-> b],
                        !.branch = [b \in 1 .. n |-> NoBranch]]

NextListing ==
    \/ \E b \in 1 .. MaxProjects : BranchBegins(b)
    \/ \E b \in 1 .. MaxProjects : FetchProjectData(b)
    \/ \E b \in 1 .. MaxProjects : EnrichItems(b)
    \/ GatherEnds
    \/ ReportResult

SpecListing == InitListing /\ [][NextListing]_vars

(***************************************************************************)
(* SpecPattern: the work-item resolvers are entered with any query of up   *)
(* to MaxQueryLen characters out of letters, digits, the hyphen and the    *)
(* newline, or with an identifier of up to MaxLetters letters, and take    *)
(* their branch.                                                           *)
(***************************************************************************)
MaxQueryLen == 4

MaxLetters == 11

PatternChars == {"A", "b", "1", "-", "\n"}

\* n letters, a hyphen and a digit
LongIdentifier(n) == [i \in 1 .. n + 2 |-> IF i <= n THEN "A" ELSE IF i = n + 1 THEN "-" ELSE "7"]

PatternQueries ==
    SeqsUpTo(PatternChars, MaxQueryLen) \cup {LongIdentifier(n) : n \in 1 .. MaxLetters}

InitPattern ==
    /\ InitTasks(ResolveTasks, [t \in ResolveTasks |-> RetrieveOutcomes("across")])
    /\ kind = [t \in ResolveTasks |-> "call"]
    /\ num_pages = 1
    /\ watch = 0
    /\ callers = CacheCallers
    /\ cache_enabled = TRUE
    /\ cache_store = [k \in ResolveKeys |-> <<>>]
    /\ _no_cache = FALSE
    /\ cached_call = [c \in CacheCallers |-> NoCall]
    /\ prev_call = [c \in CacheCallers |-> NoCall]
    /\ command = NoCommand
    /\ \E fn \in WorkItemFns, q \in PatternQueries :
          resolver = [NoResolver EXCEPT !.pc = "start", !.fn = fn, !.query = q]

NextPattern == ResolveBegin

SpecPattern == InitPattern /\ [][NextPattern]_vars

(***************************************************************************)
(* SpecRace: two coroutines each call _cached_list once, for the same key, *)
(* on a cold cache, in any interleaving of their reads, fetches and        *)
(* writes; cache.get and cache.set may raise.                              *)
(***************************************************************************)
RaceCallers == {"c1", "c2"}

RaceKey == _cache_key("states", "ws", "pA")

InitRace ==
    /\ InitTasks({}, <<>>)
    /\ kind = <<>>
    /\ num_pages = 1
    /\ watch = 0
    /\ InitCache(RaceCallers)

\* cached_list_states("ws", "pA"), called once by each coroutine
RaceCall(c) ==
    /\ cached_call[c].pc = "none"
    /\ CachedList(c, RaceKey)

NextRace ==
    \/ \E c \in callers : RaceCall(c)
    \/ \E c \in callers : CacheGet(c)
    \/ \E c \in callers : FetchFn(c)
    \/ \E c \in callers : CacheSet(c)

SpecRace == InitRace /\ [][NextRace]_vars

(***************************************************************************)
(* SpecFanOut: resolve_work_item_across_projects_async with a UUID query,  *)
(* where the remote answers the retrieve in each project the same way at   *)
(* every request; the per-project attempts end in any order.               *)
(***************************************************************************)
InitFanOut ==
    /\ \E outs \in [ResolveTasks -> RetrieveOutcomes("across")] :
          InitTasks(ResolveTasks, [t \in ResolveTasks |-> {outs[t]}])
    /\ resolver = [NoResolver EXCEPT !.pc = "start", !.fn = "across",
                                     !.query = UuidQuery]
    /\ kind = [t \in ResolveTasks |-> "call"]
    /\ num_pages = 1
    /\ watch = 0
    /\ callers = CacheCallers
    /\ cache_enabled \in BOOLEAN
    /\ cache_store = [k \in ResolveKeys |-> <<>>]
    /\ _no_cache = FALSE
    /\ cached_call = [c \in CacheCallers |-> NoCall]
    /\ prev_call = [c \in CacheCallers |-> NoCall]
    /\ command = NoCommand

NextFanOut ==
    \/ ResolveBegin
    \/ \E c \in callers : ListCall(c) \/ CacheGet(c) \/ ResolverFetch(c)
    \/ \E c \in callers : CacheSet(c) \/ ListEnds(c)
    \/ \E t \in tasks : SdkCall(t) \/ SdkInvoke(t) \/ SdkRetry(t)
    \/ \E t \in tasks : GatherRaises(t)
    \/ GatherReturns

SpecFanOut == InitFanOut /\ [][NextFanOut]_vars

(***************************************************************************)
(* Claims about run_sdk.                                                   *)
(***************************************************************************)
IsRetryableOutcome(o) ==
    o.kind = "raise" /\ o.cls = "HttpError" /\ o.status_code \in {429, 502, 503, 504}

\* C1: run_sdk invokes the wrapped function until the first success, the
\* first non-retryable error or 5 invocations: while the call is not over
\* every invocation so far failed with a retryable status and fewer than 5
\* were made; a function failing retryably at every invocation is invoked
\* exactly 5 times and the call raises the last attempt's own HttpError;
\* a first success at invocation k <= 5 after k-1 retryable failures is
\* returned after exactly k invocations.
C1_RetryUntilSuccessOrFive ==
    \A t \in tasks :
        /\ call_count[t] <= 5
        /\ pc[t] # "done" => (retry_fails[t] = call_count[t] /\ call_count[t] < 5)
        /\ (pc[t] = "done" /\ retry_fails[t] = call_count[t]) =>
              /\ call_count[t] = 5
              /\ result[t].kind = "raise"
              /\ result[t] = outcome[t]
              /\ IsRetryableOutcome(result[t])
        /\ (pc[t] = "done" /\ outcome[t].kind = "return") =>
              /\ result[t] = outcome[t]
              /\ call_count[t] = retry_fails[t] + 1

\* one call exhausted its 5 attempts on 429, another succeeded at its third
C1_Witness ==
    \E t, u \in tasks :
        /\ pc[t] = "done" /\ call_count[t] = 5 /\ retry_fails[t] = 5
        /\ result[t] = Raised(HttpError(429))
        /\ pc[u] = "done" /\ call_count[u] = 3 /\ retry_fails[u] = 2
        /\ result[u] = Returned(<<"b">>)

\* C2: an error is retried if and only if it is an HttpError with status
\* 429, 502, 503 or 504: after any other error the call is over at once,
\* the same error reaches the caller, and the function was invoked exactly
\* once for it (once in all when it was the first invocation); a retryable
\* error with attempts left never ends the call.
C2_RetryIffRetryable ==
    \A t \in tasks :
        /\ (outcome[t].kind = "raise" /\ ~IsRetryableOutcome(outcome[t])) =>
              /\ pc[t] = "done"
              /\ result[t] = outcome[t]
              /\ call_count[t] = retry_fails[t] + 1
        /\ (IsRetryableOutcome(outcome[t]) /\ call_count[t] < 5) =>
              /\ pc[t] \in {"backoff", "thread", "waiting"}
              /\ result[t] = NoOutcome

\* a 404 ended one call after one invocation, and an exception of another
\* class carrying status 503 ended the other after one invocation
C2_Witness ==
    \E t, u \in tasks :
        /\ pc[t] = "done" /\ call_count[t] = 1
        /\ result[t] = Raised(HttpError(404))
        /\ pc[u] = "done" /\ call_count[u] = 1
        /\ result[u] = Raised([cls |-> "GatewayError", status_code |-> 503])

\* the wrapped remote calls executing now
InFlight == {t \in tasks : pc[t] = "thread"}

\* C3 (safety): at most 10 wrapped remote calls execute at once; the first
\* ten callers are never suspended, and a later caller is suspended only
\* while all 10 permits are taken or it queues behind an earlier suspended
\* caller.
C3_AtMostTenInFlight ==
    /\ Cardinality(InFlight) <= 10
    /\ Cardinality(InFlight) + sem_value = 10
    /\ \A t \in tasks :
          pc[t] = "waiting" =>
              /\ t > 10
              /\ \E i \in 1 .. Len(sem_waiters) : sem_waiters[i] = t
              /\ sem_value = 0 \/ Head(sem_waiters) # t \/ ENABLED WakeUp(t)

\* C3 (progress): a suspended caller (by the safety part, the eleventh or a
\* later one) proceeds once a permit is released.
C3_SuspendedProceeds ==
    \A t \in SemTasks \ (1 .. 10) : (pc[t] = "waiting") ~> (pc[t] = "thread")

\* C3: both parts
C3_BoundedConcurrency == []C3_AtMostTenInFlight /\ C3_SuspendedProceeds

\* ten calls execute and the eleventh caller is suspended
C3_Witness ==
    /\ Cardinality(InFlight) = 10
    /\ \E t \in tasks : pc[t] = "waiting"

(***************************************************************************)
(* Claims about pagination.                                                *)
(***************************************************************************)
\* C4, as claimed: once a request with some cursor was answered with its
\* page, no later step of the same pagination requests that cursor again
\* (no page is fetched twice, the pagination never starts over).
C4_NoPageRequestedAgain ==
    [][\A t \in tasks : fetched_ok[t] => req_count'[t] = req_count[t]]_vars

\* C5, as claimed: through paginate_all_async, list_fn is invoked at most
\* 5 times with any one cursor value.
C5_AtMostFiveRequestsPerPage ==
    \A t \in tasks : kind[t] = "paginate" => req_count[t] <= 5

RECURSIVE ConcatPages(_)
\* the results of pages 1 .. n, in page order
ConcatPages(n) == IF n = 0 THEN <<>> ELSE ConcatPages(n - 1) \o PageResults(n)

\* C6: _paginate_all requests the first page with cursor None and page size
\* 100 and each following page with the next_cursor of the page just
\* received, goes on exactly while the page received says next_page_results,
\* and returns the concatenation of the results of the received pages in
\* the order received.
C6_PaginateAll ==
    \A t \in tasks :
        LET r == received[t] IN
        /\ \A i \in 1 .. Len(r) :
              /\ r[i].params.per_page = 100
              /\ r[i].params.cursor = (IF i = 1 THEN 0 ELSE r[i - 1].page)
              /\ r[i].page = i
              /\ i < Len(r) => r[i].page < num_pages
        /\ ppc[t] # "off" =>
              /\ cursor[t] = Len(r)
              /\ Len(r) < num_pages
        /\ all_results[t] = ConcatPages(Len(r))
        /\ (ppc[t] = "off" /\ page_outcome[t].kind = "return") =>
              /\ Len(r) = num_pages
              /\ pc[t] = "done"
              /\ result[t] = Returned(ConcatPages(num_pages))

\* a listing of three pages was returned whole
C6_Witness ==
    \E t \in tasks :
        /\ num_pages = 3
        /\ Len(received[t]) = 3
        /\ pc[t] = "done"
        /\ result[t] = Returned(<<<<1, 1>>, <<1, 2>>, <<2, 1>>, <<3, 1>>, <<3, 2>>>>)

\* C7: when a request fails with a non-retryable error, on the first page
\* or a later one, the pagination makes no further request and raises that
\* error: its caller gets the error and none of the accumulated results.
C7_NonRetryablePropagates ==
    \A t \in tasks :
        (page_outcome[t].kind = "raise" /\ ~IsRetryableOutcome(page_outcome[t])) =>
            /\ pc[t] = "done"
            /\ ppc[t] = "off"
            /\ result[t] = page_outcome[t]
            /\ result[t].kind = "raise"
            /\ result[t].value = <<>>
            /\ ~ENABLED FetchPage(t)
            /\ ~ENABLED PageRetry(t)
            /\ ~ENABLED PaginateBegin(t)
            /\ ~ENABLED Retry(t)

\* a 500 on the third page ended a pagination that had two pages of results
C7_Witness ==
    \E t \in tasks :
        /\ Len(received[t]) = 2
        /\ all_results[t] # <<>>
        /\ page_outcome[t] = Raised(HttpError(500))
        /\ pc[t] = "done"
        /\ result[t] = Raised(HttpError(500))

(***************************************************************************)
(* Claims about _cached_list.                                              *)
(***************************************************************************)
\* the items of a fetched list as plain dicts
AsDicts(results) == [i \in DOMAIN results |-> Dict(results[i].fields)]

\* the caller's current call has returned, and from the return of its
\* previous call (same key, a list returned and stored) to the return of
\* this one the entry was neither invalidated nor expired and the cache
\* worked (enabled, cache.set and cache.get did not raise)
QuietPair(c) ==
    /\ cached_call[c].pc = "returned"
    /\ cached_call[c].quiet_pair
    /\ prev_call[c].pc = "returned"
    /\ prev_call[c].result.kind = "return"
    /\ cache_enabled
    /\ ~prev_call[c].write_error
    /\ ~cached_call[c].read_error

\* C8: with no-cache mode off and the cache enabled, and no invalidation or
\* expiry in between, the second of two sequential _cached_list calls with
\* the same key invokes fetch_fn not at all and returns a value equal to
\* the first call's result; the first call invoked it at most once, exactly
\* once when it found no entry.
C8_SecondCallHits ==
    \A c \in callers :
        (QuietPair(c) /\ ~prev_call[c].nocache /\ ~cached_call[c].nocache) =>
            /\ cached_call[c].fetches = 0
            /\ cached_call[c].result = prev_call[c].result
            /\ prev_call[c].fetches <= 1
            /\ prev_call[c].cold => prev_call[c].fetches + cached_call[c].fetches = 1

\* a first call on a cold cache fetched a typed item and a dict; the second
\* call returned the same two dicts without fetching
C8_Witness ==
    \E c \in callers :
        /\ QuietPair(c) /\ ~prev_call[c].nocache /\ ~cached_call[c].nocache
        /\ prev_call[c].cold
        /\ prev_call[c].fetches = 1
        /\ cached_call[c].fetches = 0
        /\ cached_call[c].result = Returned(<<Dict("1"), Dict("2")>>)

\* C9: a _cached_list call that finds no-cache mode active never reads the
\* cache, invokes fetch_fn (exactly once) and returns the freshly fetched
\* data whether or not an entry exists, and stores that data under the key;
\* the next call for the key, made with no-cache mode off, returns that
\* stored data without invoking fetch_fn.
C9_NoCacheFetchesAndStores ==
    \A c \in callers :
        /\ cached_call[c].nocache =>
              /\ cached_call[c].pc # "read"
              /\ ~cached_call[c].read_error
              /\ cached_call[c].pc \in {"write", "returned"} =>
                    cached_call[c].fetches = 1
              /\ (cached_call[c].pc = "returned"
                    /\ cached_call[c].fetched.kind = "return") =>
                    /\ cached_call[c].result =
                          Returned(AsDicts(cached_call[c].fetched.value))
                    /\ (cache_enabled /\ ~cached_call[c].write_error
                          /\ cached_call[c].quiet) =>
                          cache_store[cached_call[c].key] =
                              <<AsDicts(cached_call[c].fetched.value)>>
        /\ (QuietPair(c) /\ prev_call[c].nocache /\ ~cached_call[c].nocache) =>
              /\ cached_call[c].fetches = 0
              /\ cached_call[c].result = prev_call[c].result

\* a call in no-cache mode found an entry, fetched all the same and
\* returned one dict; with no-cache off the next call returned that dict
\* without fetching
C9_Witness ==
    \E c \in callers :
        /\ QuietPair(c) /\ prev_call[c].nocache /\ ~cached_call[c].nocache
        /\ ~prev_call[c].cold
        /\ prev_call[c].fetches = 1
        /\ prev_call[c].result = Returned(<<Dict("1")>>)
        /\ cached_call[c].fetches = 0
        /\ cached_call[c].result = Returned(<<Dict("1")>>)

\* C10: when cache.get raises inside _cached_list, the error does not reach
\* the caller: fetch_fn is invoked exactly once and the call gives back
\* what fetch_fn gave, a list converted to dicts (or fetch_fn's own
\* exception).
C10_ReadErrorFallsBackToFetch ==
    \A c \in callers :
        cached_call[c].read_error =>
            /\ cached_call[c].pc \in {"fetch", "write", "returned"}
            /\ cached_call[c].pc \in {"write", "returned"} =>
                  cached_call[c].fetches = 1
            /\ cached_call[c].pc = "returned" =>
                  /\ cached_call[c].result.cls # "CacheError"
                  /\ cached_call[c].fetched.kind = "return" =>
                        cached_call[c].result =
                            Returned(AsDicts(cached_call[c].fetched.value))
                  /\ cached_call[c].fetched.kind = "raise" =>
                        cached_call[c].result = cached_call[c].fetched

\* an entry existed, cache.get raised, the list was fetched once and
\* returned as dicts
C10_Witness ==
    \E c \in callers :
        /\ cached_call[c].read_error
        /\ ~cached_call[c].cold
        /\ cached_call[c].pc = "returned"
        /\ cached_call[c].fetches = 1
        /\ cached_call[c].fetched = Returned(<<Model("1")>>)
        /\ cached_call[c].result = Returned(<<Dict("1")>>)

\* C11: when cache.set raises inside _cached_list after fetch_fn returned a
\* list, the call raises nothing: it returns the freshly fetched data,
\* converted to dicts.
C11_WriteErrorStillReturns ==
    \A c \in callers :
        (cached_call[c].write_error /\ cached_call[c].pc = "returned") =>
            /\ cached_call[c].fetched.kind = "return"
            /\ cached_call[c].fetches = 1
            /\ cached_call[c].result =
                  Returned(AsDicts(cached_call[c].fetched.value))

\* a typed item and a dict were fetched, cache.set raised, nothing was
\* stored and the two dicts were returned
C11_Witness ==
    \E c \in callers :
        /\ cached_call[c].write_error
        /\ cached_call[c].pc = "returned"
        /\ cached_call[c].cold
        /\ cache_store[cached_call[c].key] = <<>>
        /\ cached_call[c].fetched = Returned(<<Dict("1"), Model("2")>>)
        /\ cached_call[c].result = Returned(<<Dict("1"), Dict("2")>>)

(***************************************************************************)
(* Claims about the cache keys and the invalidation.                       *)
(***************************************************************************)
\* what a read of the listing of a tuple finds in the store
Lookup(tp) == cache_store[_cache_key(tp[1], tp[2], tp[3])]

\* a _cached_list call made for the tuple tp stores its data in this step
StoresFor(tp) ==
    \E c \in callers :
        /\ cached_call[c].key = _cache_key(tp[1], tp[2], tp[3])
        /\ CacheSet(c)

\* C12: cache keys never collide: the keys of two different tuples
\* (resource, workspace, project_id or None) under one base URL differ, so
\* storing or invalidating the listing of one tuple never changes what is
\* read for another tuple (a step that does change it shows two tuples
\* with one key).
C12_KeysNeverCollide ==
    [][\A a \in CacheTuples : \A b \in CacheTuples \ {a} :
          (StoresFor(a) \/ InvalidateResource(a[1], a[2], a[3])) =>
              Lookup(b)' = Lookup(b)]_vars

\* invalidate_resource leaves the entries of all other keys as they are
InvalidateFrame ==
    \A tp \in CacheTuples :
        InvalidateResource(tp[1], tp[2], tp[3]) =>
            \A k \in CacheKeys \ {_cache_key(tp[1], tp[2], tp[3])} :
                cache_store'[k] = cache_store[k]

\* once invalidate_resource has deleted the entry of a returned call's key,
\* the key has no entry; the caller's next call for that key invokes
\* fetch_fn, once, and does not return before it has
InvalidateRemoves ==
    \A c \in callers :
        /\ (cached_call[c].pc = "returned" /\ cached_call[c].invalidated) =>
              cache_store[cached_call[c].key] = <<>>
        /\ cached_call[c].after_invalidate =>
              /\ cached_call[c].cold
              /\ cached_call[c].pc \in {"write", "returned"} =>
                    cached_call[c].fetches = 1

\* C13: invalidate_resource(resource, workspace, project_id) removes the
\* entry stored under the key of that tuple and leaves every other cache
\* entry unchanged (a cache.delete that raises is logged and removes
\* nothing); the next _cached_list call for that key invokes fetch_fn again.
C13_InvalidateResource == [][InvalidateFrame]_vars /\ []InvalidateRemoves

\* a listing was stored and invalidated while the other key kept its
\* entry, and the next call for the key fetched again
C13_Witness ==
    \E c \in callers :
        /\ cached_call[c].after_invalidate
        /\ cached_call[c].pc = "returned"
        /\ ~cached_call[c].nocache
        /\ cached_call[c].fetches = 1
        /\ cached_call[c].result = Returned(<<Dict("1")>>)
        /\ \E k \in CacheKeys \ {cached_call[c].key} : cache_store[k] # <<>>

\* C14: after any successful create, update or delete command on a kind
\* whose listing is cached (projects, modules, cycles, labels, states), the
\* cache entry of that kind's listing for the affected workspace and project
\* is absent, so that the next name resolution of the kind fetches the
\* listing instead of reading the one stored before the write.  (A
\* cache.delete that raised is not held against the handler.)
C14_WriteInvalidatesListing ==
    [][(command.pc = "write" /\ command'.pc = "done" /\ ~command'.delete_error) =>
          cache_store'[_cache_key(command.resource, command.workspace,
                                  command.project_id)] = <<>>]_vars

(***************************************************************************)
(* Claims about the resolvers.                                             *)
(***************************************************************************)
\* no _cached_list call was made and nothing is stored
CacheUntouched ==
    /\ \A c \in callers : cached_call[c] = NoCall
    /\ \A k \in DOMAIN cache_store : cache_store[k] = <<>>

ScopedResolvers == {"project", "module", "state", "cycle", "label", "work_item"}

\* C15: in the async resolvers of project, module, state, cycle, label and
\* work item (with a project), a query of the UUID form leads to one direct
\* retrieve through run_sdk and never to a cache read or a listing; when
\* the retrieve raises not-found (404) the resolver raises
\* ResourceNotFoundError with the resource kind and the query as given.
C15_UuidRetrievesDirectly ==
    (resolver.fn \in ScopedResolvers /\ resolver.query \in UuidQueries) =>
        /\ resolver.pc \in {"start", "retrieve", "done"}
        /\ CacheUntouched
        /\ resolver.items = <<>>
        /\ pc[2] = "idle"
        /\ resolver.pc = "start" => pc[1] = "idle"
        /\ resolver.pc = "done" =>
              /\ pc[1] = "done"
              /\ call_count[1] >= 1
              /\ result[1].kind = "return" =>
                    /\ resolver.result.kind = "return"
                    /\ ~resolver.result.value[1].has_model_dump
                    /\ resolver.result.value[1].fields = result[1].value[1].fields
              /\ result[1] = Raised(HttpError(404)) =>
                    resolver.result =
                        ResolverRaises(ResourceNotFoundError(
                            ResourceType(resolver.fn), resolver.query))

\* resolve_module_async got an upper-case UUID, the retrieve raised 404 and
\* the resolver raised ResourceNotFoundError("Module", query), the cache
\* untouched
C15_Witness ==
    /\ resolver.fn = "module"
    /\ resolver.query = UuidQueryUpper
    /\ resolver.pc = "done"
    /\ result[1] = Raised(HttpError(404))
    /\ resolver.result =
          ResolverRaises(ResourceNotFoundError("Module", UuidQueryUpper))
    /\ CacheUntouched

\* C16: resolve_work_item_across_projects_async with a query of the
\* structured form makes the structured lookup, one run_sdk call (invoked
\* once unless a retryable error has it retried), returns the record found
\* together with the value of its "project" key as the project id, and
\* never lists the projects or asks an individual project.
C16_StructuredLookupOnce ==
    (resolver.fn = "across" /\ resolver.query \in IdQueries) =>
        /\ resolver.pc \in {"start", "lookup", "done"}
        /\ CacheUntouched
        /\ resolver.items = <<>>
        /\ pc[2] = "idle" /\ call_count[2] = 0
        /\ resolver.pc # "start" =>
              resolver.request =
                  [project_identifier |-> <<"F", "E">>,
                   issue_number |-> IF resolver.query = IdQuery THEN 42 ELSE 7]
        /\ resolver.pc = "done" =>
              /\ pc[1] = "done"
              /\ call_count[1] \in {retry_fails[1], retry_fails[1] + 1}
              /\ retry_fails[1] = 0 => call_count[1] = 1
              /\ result[1].kind = "return" =>
                    /\ resolver.result.kind = "return"
                    /\ resolver.result.value[1] = result[1].value[1]
                    /\ resolver.result.value[2] =
                          (IF "project" \in DOMAIN result[1].value[1]
                           THEN result[1].value[1].project ELSE "")

\* "fe-007" was looked up as FE-7 with one request, and the record came
\* back with its project "pB"
C16_Witness ==
    /\ resolver.fn = "across"
    /\ resolver.query = IdQueryLower
    /\ resolver.pc = "done"
    /\ call_count[1] = 1
    /\ resolver.request = [project_identifier |-> <<"F", "E">>, issue_number |-> 7]
    /\ resolver.result = ResolverReturns(<<WorkItem("w1", "pB"), "pB">>)

\* the per-project retrieves of the gather that have ended
Attempts == {t \in 1 .. Len(resolver.items) : pc[t] = "done"}

\* C17: resolve_work_item_across_projects_async with a UUID query attempts
\* the direct retrieve in every project of the workspace; when the retrieve
\* succeeds in some project the resolver returns (record, that project's
\* id); a non-retryable HttpError in a project counts as "not in this
\* project"; when the retrieve fails in every project (that way) the
\* resolver raises ResourceNotFoundError.  (Stated for retrieves that end
\* with a record or with an HttpError.)
C17_UuidFanOut ==
    (resolver.fn = "across" /\ resolver.query \in UuidQueries
        /\ resolver.pc = "done" /\ resolver.items # <<>>
        /\ \A t \in Attempts : result[t].kind = "raise" => result[t].cls = "HttpError") =>
        /\ \A t \in 1 .. Len(resolver.items) : pc[t] # "idle"
        /\ (\E t \in Attempts : result[t].kind = "return") =>
              \E t \in Attempts :
                  /\ result[t].kind = "return"
                  /\ resolver.result =
                        ResolverReturns(<<result[t].value[1],
                                          resolver.items[t].fields>>)
        /\ (Attempts = 1 .. Len(resolver.items)
              /\ \A t \in Attempts :
                    result[t].kind = "raise" /\ ~Propagates(result[t])) =>
              resolver.result =
                  ResolverRaises(ResourceNotFoundError("Work item",
                                                       resolver.query))

\* C18: resolve_work_item_across_projects and its async version, given a
\* query that is neither a structured identifier nor a UUID, fail at once:
\* the error is raised before any remote call and before the project
\* listing or the cache is read.
C18_BareNameRejected ==
    (resolver.fn \in {"across", "across_sync"}
        /\ resolver.query \in MeQueries \cup NameQueries) =>
        /\ resolver.pc \in {"start", "done"}
        /\ resolver.pc = "done" =>
              resolver.result =
                  ResolverRaises(ResourceNotFoundError("Work item",
                      resolver.query \o NameSearchHint))
        /\ CacheUntouched
        /\ resolver.items = <<>>
        /\ resolver.remote_calls = 0
        /\ \A t \in tasks : pc[t] = "idle" /\ call_count[t] = 0

\* the sync resolver refused the name "backend" with no call made
C18_Witness ==
    /\ resolver.fn = "across_sync"
    /\ resolver.query = NameQuery
    /\ resolver.pc = "done"
    /\ resolver.result.exc.cls = "ResourceNotFoundError"
    /\ resolver.remote_calls = 0
    /\ CacheUntouched

\* the caller's cached_get_me call has returned, and its previous call
\* stored the self-identity record, whose entry was neither invalidated nor
\* expired up to the return of this call
MeEntryValid(c) ==
    /\ cached_call[c].pc = "returned"
    /\ cached_call[c].key = ListKey("user", "me")
    /\ cached_call[c].quiet_pair
    /\ prev_call[c].pc = "returned"
    /\ prev_call[c].result.kind = "return"
    /\ cache_enabled
    /\ ~prev_call[c].write_error

\* resolve_user_async with "me" in any letter case goes through
\* cached_get_me alone: the member list is neither read from the cache nor
\* fetched, no listing is held, and what cached_get_me returns is returned
MeNeverListsMembers ==
    (resolver.fn = "user" /\ resolver.query \in MeQueries) =>
        /\ resolver.pc \in {"start", "me", "done"}
        /\ resolver.items = <<>>
        /\ \A t \in tasks : pc[t] = "idle"
        /\ cache_store[ListKey("user", "members")] = <<>>
        /\ \A c \in callers :
              /\ cached_call[c].key \in {"", ListKey("user", "me")}
              /\ prev_call[c].key \in {"", ListKey("user", "me")}
              /\ (resolver.pc = "done" /\ cached_call[c].pc = "returned") =>
                    IF cached_call[c].result.kind = "return"
                    THEN resolver.result = ResolverReturns(<<Dict("me")>>)
                    ELSE resolver.result =
                             ResolverRaises(ExceptionOf(cached_call[c].result))

\* C19 as stated: resolve_user_async with "me" in any letter case returns
\* the (cached) self-identity record and never reads or fetches the member
\* list; the self-identity lookup is made at most once while its cache
\* entry is valid.
C19_MeFetchedOnceWhileValid ==
    /\ MeNeverListsMembers
    /\ \A c \in callers :
          MeEntryValid(c) =>
              /\ cached_call[c].fetches = 0
              /\ prev_call[c].fetches <= 1

\* C19, amended: resolve_user_async with "me" in any letter case returns
\* the (cached) self-identity record and never reads or fetches the member
\* list; the self-identity lookup is made at most once while its cache
\* entry is valid, provided no-cache mode is off and the cache read does
\* not fail.
C19_MeFetchedOnceWhenCacheRead ==
    /\ MeNeverListsMembers
    /\ \A c \in callers :
          (MeEntryValid(c) /\ ~cached_call[c].nocache
              /\ ~cached_call[c].read_error) =>
              /\ cached_call[c].fetches = 0
              /\ prev_call[c].fetches <= 1
              /\ cached_call[c].result = Returned(<<Dict("me")>>)

\* "ME" was resolved twice: the first call fetched the record once and
\* stored it, the second returned it from the cache without a fetch
C19_Witness ==
    /\ resolver.fn = "user"
    /\ resolver.query = <<"M", "E">>
    /\ resolver.pc = "done"
    /\ resolver.result = ResolverReturns(<<Dict("me")>>)
    /\ \E c \in callers :
          /\ MeEntryValid(c)
          /\ ~cached_call[c].nocache
          /\ prev_call[c].fetches = 1
          /\ cached_call[c].fetches = 0

\* C20: when the direct retrieve-by-id of a resolver for a UUID query fails
\* with a non-retryable remote error other than not-found (401 or 500),
\* the resolver's caller receives that HttpError, its status code
\* unchanged.
C20_FatalErrorUnchanged ==
    (resolver.fn \in ScopedResolvers /\ resolver.query \in UuidQueries
        /\ resolver.pc = "done"
        /\ result[1] \in {Raised(HttpError(401)), Raised(HttpError(500))}) =>
        resolver.result = ResolverRaises(ExceptionOf(result[1]))

\* the run_sdk call of task t used up its retry budget: every one of its
\* MaxAttempts invocations failed with a retryable status
Exhausted(t) ==
    pc[t] = "done" /\ call_count[t] = MaxAttempts /\ retry_fails[t] = MaxAttempts

\* the step in which the resolver ends
ResolverEnds == resolver.pc # "done" /\ resolver'.pc = "done"

AtOrAbove ==
    {i \in DOMAIN best_match.names :
        ScoreGE(Score(best_match.query, best_match.names[i]), best_match.threshold)}

\* the places of the listing whose name equals the query ignoring case
EqualIgnoringCase ==
    {i \in DOMAIN best_match.names :
        lower(best_match.names[i]) = lower(best_match.query)}

FailedFetch ==
    {b \in DOMAIN listing.branch : listing.branch[b].fetched.kind = "raise"}

\* what is output is a list of the items in `its`, in their order
RECURSIVE Contains(_, _)
Contains(data, its) ==
    IF its = <<>> THEN TRUE
    ELSE IF data = <<>> THEN FALSE
    ELSE IF Head(data) = Head(its) THEN Contains(Tail(data), Tail(its))
    ELSE Contains(Tail(data), its)

\* C23: when the fetch of one project's data fails in the work-item listing
\* across projects, the listing goes on: it ends, the items of every other
\* project (whose branch returned them) are in the data that is output,
\* and a warning naming the project is printed for each failed branch.
C23_FailedProjectWarned ==
    (listing.pc = "done" /\ FailedFetch # {}
        /\ FailedFetch # DOMAIN listing.branch) =>
        /\ \A b \in DOMAIN listing.branch :
              listing.branch[b].result.kind = "return" =>
                  Contains(listing.data, listing.branch[b].result.value)
        /\ \A b \in FailedFetch :
              \E i \in DOMAIN listing.warnings :
                  listing.warnings[i] = listing.projects_to_list[b]

\* C24: no two remote calls that run at the same time go through one
\* client: here, the per-project retrieves of the cross-project UUID
\* resolution, which run in worker threads side by side, each use a client
\* of their own.
C24_OwnClientPerBranch ==
    \A t, u \in tasks :
        (t # u /\ pc[t] = "thread" /\ pc[u] = "thread") =>
            TaskClient(t) # TaskClient(u)

(***************************************************************************)
(* Claims about the query patterns.                                        *)
(***************************************************************************)
\* one or more letters, a hyphen, one or more digits: the place of the
\* hyphen, or 0
HyphenOfIdentifier(q) ==
    IF \E h \in 2 .. Len(q) - 1 :
          /\ q[h] = "-"
          /\ \A i \in 1 .. h - 1 : q[i] \in Letters
          /\ \A i \in h + 1 .. Len(q) : q[i] \in DigitChars
    THEN CHOOSE h \in 2 .. Len(q) - 1 : q[h] = "-"
    ELSE 0

\* C25: a work-item query is taken for a structured identifier exactly
\* when it is one or more letters, a hyphen and one or more digits: every
\* such query, whatever its letter case and the number of its letters,
\* goes to the structured lookup with the letters upper-cased as the
\* project short-code and the digits as the sequence number, and no other
\* query does (none with an empty letter part, an empty digit part or a
\* digit among the letters).
C25_IdentifierExactlyLettersHyphenDigits ==
    (resolver.fn \in WorkItemFns /\ resolver.pc # "start") =>
        LET h == HyphenOfIdentifier(resolver.query) IN
        IF h # 0
        THEN /\ resolver.pc \in {"lookup", "sync_lookup"}
             /\ resolver.request =
                   [project_identifier |-> upper(SubSeq(resolver.query, 1, h - 1)),
                    issue_number |->
                        int(SubSeq(resolver.query, h + 1, Len(resolver.query)))]
        ELSE /\ resolver.pc \notin {"lookup", "sync_lookup"}
             /\ resolver.request = NoRequest

(***************************************************************************)
(* Further claims about the cache.                                         *)
(***************************************************************************)
\* C30: an empty listing is cached like any other: after a _cached_list
\* call whose fetch_fn returned an empty list (stored, with the cache at
\* work), the next call for the key, with no-cache off and the entry
\* neither expired nor invalidated, returns the empty list and does not
\* invoke fetch_fn.
C30_EmptyListingIsCached ==
    \A c \in callers :
        (QuietPair(c) /\ ~cached_call[c].nocache
            /\ prev_call[c].fetches = 1
            /\ prev_call[c].result = Returned(<<>>)) =>
            /\ cached_call[c].fetches = 0
            /\ cached_call[c].result = Returned(<<>>)

\* the first call fetched an empty list on a cold cache and the second
\* returned the empty list from the cache
C30_Witness ==
    \E c \in callers :
        /\ QuietPair(c) /\ ~cached_call[c].nocache
        /\ prev_call[c].cold
        /\ prev_call[c].fetches = 1
        /\ prev_call[c].result = Returned(<<>>)
        /\ cached_call[c].fetches = 0
        /\ cached_call[c].result = Returned(<<>>)
        /\ cache_store[cached_call[c].key] = <<(<<>>)>>

\* the call of c read the cache and found no entry (the cache was cold
\* when it read)
FoundNoEntry(c) ==
    /\ cached_call[c].pc \in {"fetch", "write", "returned"}
    /\ ~cached_call[c].nocache
    /\ ~cached_call[c].read_error
    /\ cached_call[c].pc = "returned" => cached_call[c].fetched # NoOutcome

\* the calls that stored their data
Wrote ==
    {c \in callers :
        /\ cached_call[c].pc = "returned"
        /\ cached_call[c].fetched.kind = "return"
        /\ ~cached_call[c].write_error}

\* two calls for one key that both found the cache cold: each invokes its
\* fetch_fn once and returns the data of its own fetch, whatever the other
\* has stored meanwhile; when both are over the entry of the key holds the
\* data of one of the writes, and no other key has an entry
RacingCalls ==
    (\A c \in callers : FoundNoEntry(c)) =>
        /\ \A c \in callers :
              /\ cached_call[c].pc \in {"write", "returned"} =>
                    cached_call[c].fetches = 1
              /\ (cached_call[c].pc = "returned"
                    /\ cached_call[c].fetched.kind = "return") =>
                    cached_call[c].result =
                        Returned(AsDicts(cached_call[c].fetched.value))
        /\ (cache_enabled /\ Wrote # {}
              /\ \A c \in callers : cached_call[c].pc = "returned") =>
              \E c \in Wrote : cache_store[RaceKey] = <<cached_call[c].result.value>>
        /\ \A k \in DOMAIN cache_store \ {RaceKey} : cache_store[k] = <<>>

\* a write that succeeds puts the writer's data under the writer's key,
\* over what the other call has stored, and the store changes in no other
\* way: the entry is the data of the last write
LastWriteWins ==
    /\ \A c \in callers :
          (cached_call[c].pc = "write" /\ cached_call'[c].pc = "returned"
              /\ ~cached_call'[c].write_error /\ cache_enabled) =>
              cache_store'[cached_call[c].key] =
                  <<AsDicts(cached_call[c].fetched.value)>>
    /\ cache_store' # cache_store =>
          \E c \in callers :
              /\ cached_call[c].pc = "write"
              /\ cached_call'[c].pc = "returned"
              /\ cache_store' =
                    [cache_store EXCEPT
                        ![cached_call[c].key] =
                            <<AsDicts(cached_call[c].fetched.value)>>]

\* C26: when two _cached_list calls for the same key run concurrently on a
\* cold cache (both find no entry when they read), each invokes its own
\* fetch and returns the data of its own fetch; once both have completed
\* the entry of the key is the data written by the write that happened
\* last; no entry under another key is created or changed.
C26_RacingFetchesLastWriteWins == []RacingCalls /\ [][LastWriteWins]_vars

\* both calls found no entry; c1 fetched one item and c2 two, both stored,
\* each returned its own list and the entry holds c2's
C26_Witness ==
    /\ \A c \in callers : FoundNoEntry(c) /\ cached_call[c].cold
    /\ Wrote = {"c1", "c2"}
    /\ cached_call["c1"].result = Returned(<<Dict("1")>>)
    /\ cached_call["c2"].result = Returned(<<Dict("1"), Dict("2")>>)
    /\ cache_store[RaceKey] = <<(<<Dict("1"), Dict("2")>>)>>

(***************************************************************************)
(* Further claims about run_sdk.                                           *)
(***************************************************************************)
\* the attempt count of a call follows its own invocations alone, and a
\* call gives up on a retryable error only after MaxAttempts invocations
\* of its own, whatever the other calls have used
OwnBudget ==
    \A t \in tasks :
        /\ pc[t] \in {"waiting", "thread"} => attempt_number[t] = call_count[t] + 1
        /\ pc[t] \in {"backoff", "done"} => attempt_number[t] = call_count[t]
        /\ pc[t] = "backoff" => call_count[t] < MaxAttempts
        /\ (pc[t] = "done" /\ IsRetryableOutcome(result[t])) =>
              call_count[t] = MaxAttempts

\* a new call starts with attempt count 1 and leaves the counts of the
\* other calls as they are
StartsAtOne ==
    \A t \in tasks :
        (pc[t] = "idle" /\ pc'[t] # "idle") =>
            /\ attempt_number'[t] = 1
            /\ \A u \in tasks \ {t} : attempt_number'[u] = attempt_number[u]

\* C27: the retry budget is per call: the attempts one run_sdk call has
\* used, earlier or at the same time, take nothing from the 5 attempts of
\* another call, and every new call starts with attempt count 1.
C27_RetryBudgetPerCall == []OwnBudget /\ [][StartsAtOne]_vars

\* one call used its 5 attempts and raised 429; the other, started when
\* the first was over or beside it, failed 4 times and returned at its 5th
C27_Witness ==
    \E t, u \in tasks :
        /\ pc[t] = "done" /\ call_count[t] = MaxAttempts
        /\ result[t] = Raised(HttpError(429))
        /\ pc[u] = "done" /\ call_count[u] = MaxAttempts /\ retry_fails[u] = 4
        /\ result[u].kind = "return"

\* the call of task t waits in a retry backoff: run_sdk's own, or the one
\* of _fetch_page inside the pagination
InBackoff(t) == pc[t] = "backoff" \/ ppc[t] = "sleep"

\* C29: no permit of the pool is held while a call waits in retry backoff,
\* in plain run_sdk calls and in the per-page retries inside
\* paginate_all_async alike: when every call is in backoff, not started or
\* over, all the permits are free.
C29_NoPermitHeldInBackoff ==
    (\A t \in tasks : InBackoff(t) \/ pc[t] \in {"idle", "done"}) =>
        sem_value = SemaphoreSize

\* the answer of the remote for the project at place t of the listing
AnswerOf(t) == CHOOSE o \in fn_outcomes[t] : TRUE

\* the outcome of the fan-out that the answers give when the projects are
\* taken in the order of the listing: the first error that is let through,
\* else the first record with its project, else not-found
InListingOrder ==
    LET places == 1 .. Len(resolver.items)
        raising == {t \in places : Propagates(AnswerOf(t))}
        found == {t \in places : AnswerOf(t).kind = "return"}
        first(S) == CHOOSE t \in S : \A u \in S : t <= u
    IN IF raising # {}
       THEN ResolverRaises(ExceptionOf(AnswerOf(first(raising))))
       ELSE IF found # {}
       THEN ResolverReturns(<<AnswerOf(first(found)).value[1],
                              resolver.items[first(found)].fields>>)
       ELSE ResolverRaises(ResourceNotFoundError("Work item", resolver.query))

\* C28: with a UUID query and fixed answers of the remote per project, the
\* outcome of resolve_work_item_across_projects_async is the same for
\* every order in which the per-project attempts end: the same record and
\* project id (of the first project in listing order that has the item) or
\* the same error.
C28_OutcomeIndependentOfOrder ==
    (resolver.pc = "done" /\ resolver.items # <<>>) =>
        resolver.result = InListingOrder

====
